---- MODULE Spec2Model ----
(***************************************************************************)
(* Backend-management plane of the generative serving gateway:             *)
(*   - BackendRegistry      (src/src/backend/registry.rs)                  *)
(*   - TextBackendRegistry  (src/src/backend/text_registry.rs)             *)
(*   - OpenAICompatibleBackend and TextEndpoint                            *)
(*                          (src/src/backend/text_backend.rs)              *)
(* Three specifications share one set of variables; each one moves only    *)
(* the component it is about and leaves the other components untouched:    *)
(*   Spec         image registry                                           *)
(*   TextSpec     text registry with its model -> backend mapping          *)
(*   AdapterSpec  one text adapter: endpoints, cursor, upstream calls      *)
(***************************************************************************)
EXTENDS Integers, Sequences, FiniteSets, Bags, TLC

VARIABLES
    backends,                \* BackendRegistry.backends: name -> adapter
    registered,              \* history: names added with Ok and not removed with Ok since
    text_backends,           \* TextBackendRegistry.backends: name -> adapter
    model_to_backend,        \* TextBackendRegistry.model_to_backend: model -> name
    fresh,                   \* history: name -> models of its latest enabled add, {} once touched
    removed,                 \* history: names removed with Ok and not added with Ok since
    endpoints,               \* OpenAICompatibleBackend.endpoints: sequence of TextEndpoint
    current_endpoint_index,  \* OpenAICompatibleBackend.current_endpoint_index
    streak,                  \* history: per endpoint, failures recorded since its last success
    up,                      \* the image backends whose upstream passes a health probe
    order,                   \* the order in which the image registry's map iterates
    strategy,                \* LoadBalancer: the strategy in force
    counter,                 \* LoadBalancer: the round-robin counter
    router_config,           \* Router: default_backend, fallback_enabled
    picks,                   \* history: round-robin picks since the healthy set last changed
    stable_from,             \* history: how many of picks precede the last registry change
    health_records,          \* HealthCheckManager: name -> latest HealthRecord
    probing,                 \* HealthCheckManager: adapters of the running cycle still to probe
    cycles,                  \* history: probe cycles completed, all upstreams down, registry unchanged
    dispatches,              \* image requests in flight: target, position, adapter held
    request_size,            \* GenerateImageRequest.size, as a sequence of characters
    parsed,                  \* what parse_size returned for request_size
    calls,                   \* text adapter: upstream requests in flight
    probe,                   \* text adapter: the running health_check, its position
    selections,              \* history: endpoints selected since the healthy list last changed
    tasks,                   \* the tasks running a registry operation in steps: position, locks held
    last                     \* the last call: operation, argument, result

vars == <<backends, registered, text_backends, model_to_backend, fresh, removed,
          endpoints, current_endpoint_index, streak,
          up, order, strategy, counter, router_config, picks, stable_from,
          health_records, probing, cycles, dispatches, request_size, parsed,
          calls, probe, selections, tasks, last>>

imageVars == <<backends, registered>>
textVars == <<text_backends, model_to_backend, fresh, removed>>
adapterVars == <<endpoints, current_endpoint_index, streak>>
gatewayVars == <<up, order, strategy, counter, router_config, picks, stable_from>>
managerVars == <<health_records, probing, cycles>>
dispatchVars == <<dispatches>>
parseVars == <<request_size, parsed>>
callVars == <<calls, probe, selections>>
taskVars == <<tasks>>
restVars == <<managerVars, dispatchVars, parseVars, callVars, taskVars>>

(***************************************************************************)
(* Bounds of the model.                                                    *)
(***************************************************************************)
NumNames == 2
NumEndpoints == 2
MaxFailures == 4

AllNames == <<"gpt-local", "ollama", "vllm", "tgi-box">>
Names == {AllNames[i] : i \in 1..NumNames}

Models == {"gpt-4", "gpt-3.5-turbo"}
UnknownModel == "claude-3"
QueryModels == Models \cup {UnknownModel}

AllUrls == <<"http://a", "http://b", "http://c", "http://d">>

(***************************************************************************)
(* Configuration values (src/src/config/settings.rs).                      *)
(***************************************************************************)
ProtocolType == {"http", "grpc", "openai", "anthropic", "tgi"}
BackendType == {"image", "text", "multi"}

EndpointLists == {<<>>, <<AllUrls[1]>>}

\* BackendConfig as the image registry reads it. The protocols drawn cover
\* the three arms of create_backend: http (as openai), grpc, unsupported.
ImageConfigs ==
    [name : Names, backend_type : {"image"}, protocol : {"http", "grpc", "anthropic"},
     endpoints : EndpointLists, weight : {1, 3}, enabled : BOOLEAN]

\* The add_backend calls drawn: every supported config, and per name one
\* call for each way to fail: an unsupported protocol, a constructor error.
ImageAddInputs ==
    {<<c, TRUE>> : c \in {x \in ImageConfigs : x.protocol # "anthropic"}}
    \cup {<<c, TRUE>> : c \in {x \in ImageConfigs :
                              /\ x.protocol = "anthropic" /\ x.enabled
                              /\ x.weight = 1 /\ x.endpoints # <<>>}}
    \cup {<<c, FALSE>> : c \in {x \in ImageConfigs :
                              /\ x.protocol = "http" /\ x.enabled
                              /\ x.weight = 1 /\ x.endpoints # <<>>}}

\* Option<T>: None is the empty set, Some(x) is {x}.
None == {}
Some(x) == {x}

\* DashMap::insert: the value under key k is replaced.
MapInsert(m, k, v) == [x \in (DOMAIN m) \cup {k} |-> IF x = k THEN v ELSE m[x]]
\* DashMap::remove.
MapRemove(m, k) == [x \in (DOMAIN m) \ {k} |-> m[x]]
EmptyMap == [x \in {} |-> {}]

\* A call record: the operation, the name it was given, the error kind it
\* returned ("Ok" for success) and the size of its registry before the call.
\* For a call of an adapter: name is the url of the endpoint it sent its
\* request to ("" if it sent none), outcome what the upstream did with the
\* request, backend the backend name a NoHealthyBackends error carries.
\* For a call of the load balancer or the router: backend is the backend
\* name asked for and model the model hint ("" for None), name the name of
\* the adapter returned.
Call(op, name, result, size) ==
    [op |-> op, name |-> name, result |-> result, size |-> size,
     backend |-> "", outcome |-> "", model |-> ""]

(***************************************************************************)
(* BackendRegistry (image).                                                *)
(***************************************************************************)
\* The adapter HttpBackend::new / GrpcBackend::new builds from a config.
ImageAdapter(config) ==
    [name |-> config.name, protocol |-> config.protocol,
     endpoints |-> config.endpoints, weight |-> config.weight,
     enabled |-> config.enabled]

\* BackendRegistry::create_backend; ctor_ok: the adapter constructor succeeded.
CreateBackend(config, ctor_ok) ==
    IF config.protocol \in {"http", "openai", "grpc"}
    THEN IF ctor_ok
         THEN [err |-> "Ok", val |-> Some(ImageAdapter(config))]
         ELSE [err |-> "Internal", val |-> None]
    ELSE [err |-> "Config", val |-> None]

\* BackendRegistry::get
Get(b, name) == IF name \in DOMAIN b THEN Some(b[name]) ELSE None
\* BackendRegistry::contains
Contains(b, name) == name \in DOMAIN b
\* BackendRegistry::get_all (the iteration order of the map is not fixed: a set)
GetAll(b) == {b[n] : n \in DOMAIN b}
\* BackendRegistry::len
RegistryLen(b) == Cardinality(DOMAIN b)

\* Mutant of AddBackendResult: the check for an existing name is dropped.
AddBackendResultNoCheck(b, config, ctor_ok) ==
    LET created == CreateBackend(config, ctor_ok) IN
    IF created.err # "Ok"
    THEN [err |-> created.err, backends |-> b]
    ELSE [err |-> "Ok",
          backends |-> MapInsert(b, config.name, CHOOSE a \in created.val : TRUE)]

\* BackendRegistry::add_backend: the error it returns and the map it leaves.
\* A registered name is refused with InvalidRequest("Backend '<name>'
\* already exists"), the only InvalidRequest of this call.
AddBackendResult(b, config, ctor_ok) ==
    IF config.name \in DOMAIN b
    THEN [err |-> "InvalidRequest", backends |-> b]
    ELSE LET created == CreateBackend(config, ctor_ok) IN
         IF created.err # "Ok"
         THEN [err |-> created.err, backends |-> b]
         ELSE [err |-> "Ok",
               backends |-> MapInsert(b, config.name, CHOOSE a \in created.val : TRUE)]

\* Mutant of RemoveBackendResult: the entry is looked up, not removed.
RemoveBackendResultKeepsEntry(b, name) ==
    IF name \in DOMAIN b
    THEN [err |-> "Ok", backends |-> b]
    ELSE [err |-> "BackendNotFound", backends |-> b]

\* BackendRegistry::remove_backend
RemoveBackendResult(b, name) ==
    IF name \in DOMAIN b
    THEN [err |-> "Ok", backends |-> MapRemove(b, name)]
    ELSE [err |-> "BackendNotFound", backends |-> b]

AddBackend(config, ctor_ok) ==
    LET r == AddBackendResult(backends, config, ctor_ok) IN
    /\ backends' = r.backends
    /\ registered' = IF r.err = "Ok" THEN registered \cup {config.name} ELSE registered
    /\ last' = Call("add_backend", config.name, r.err, RegistryLen(backends))
    /\ UNCHANGED <<textVars, adapterVars, gatewayVars, restVars>>

RemoveBackend(name) ==
    LET r == RemoveBackendResult(backends, name) IN
    /\ backends' = r.backends
    /\ registered' = IF r.err = "Ok" THEN registered \ {name} ELSE registered
    /\ last' = Call("remove_backend", name, r.err, RegistryLen(backends))
    /\ UNCHANGED <<textVars, adapterVars, gatewayVars, restVars>>

\* Nothing probed, nothing in flight, no size parsed.
InitRest ==
    /\ health_records = EmptyMap
    /\ probing = {}
    /\ cycles = [done |-> 0, clean |-> FALSE]
    /\ dispatches = EmptyBag
    /\ request_size = <<>>
    /\ parsed = <<0, 0>>
    /\ calls = EmptyBag
    /\ probe = [pos |-> 0, any_healthy |-> FALSE]
    /\ selections = <<>>
    /\ tasks = EmptyMap

\* BackendRegistry::new and TextBackendRegistry::new: both registries empty.
InitRegistries ==
    /\ backends = EmptyMap
    /\ registered = {}
    /\ text_backends = EmptyMap
    /\ model_to_backend = EmptyMap
    /\ fresh = [n \in Names |-> {}]
    /\ removed = {}
    /\ last = Call("new", "", "Ok", 0)

\* LoadBalancer::new (round-robin, counter 0) and Router::new over the
\* empty registry.
InitGateway ==
    /\ up = {}
    /\ order = <<>>
    /\ strategy = "RoundRobin"
    /\ counter = 0
    /\ router_config = [default_backend |-> {}, fallback_enabled |-> TRUE]
    /\ picks = <<>>
    /\ stable_from = 0

\* The gateway before any text adapter is looked at: no endpoints.
Init ==
    /\ InitRegistries
    /\ InitGateway
    /\ InitRest
    /\ endpoints = <<>>
    /\ current_endpoint_index = 0
    /\ streak = <<>>

Next ==
    \/ \E in \in ImageAddInputs : AddBackend(in[1], in[2])
    \/ \E name \in Names : RemoveBackend(name)

Spec == Init /\ [][Next]_vars

(***************************************************************************)
(* TextBackendRegistry.                                                    *)
(***************************************************************************)
\* BackendConfig as the text registry reads it.
TextConfigs ==
    [name : Names, backend_type : {"text", "image"}, protocol : {"openai", "grpc"},
     models : SUBSET Models, enabled : BOOLEAN]

\* The add_backend calls drawn: every accepted config (any name, any list of
\* models, enabled or not), and per name one call for each way to fail: a
\* config that is not of type text, the gRPC refusal of create_text_backend,
\* an HTTP client that cannot be built.
TextAddInputs ==
    {<<c, TRUE>> : c \in {x \in TextConfigs :
                              x.backend_type = "text" /\ x.protocol = "openai"}}
    \cup {<<c, TRUE>> : c \in {x \in TextConfigs :
                              /\ x.models = Models /\ x.enabled
                              /\ x.backend_type = "image" \/ x.protocol = "grpc"}}
    \cup {<<c, FALSE>> : c \in {x \in TextConfigs :
                              /\ x.models = Models /\ x.enabled
                              /\ x.backend_type = "text" /\ x.protocol = "openai"}}

\* OpenAICompatibleBackend::new (AnthropicBackend::new wraps it): the fields
\* the registry reads back through name(), protocol(), models(), is_enabled().
TextAdapter(config) ==
    [name |-> config.name, protocol |-> config.protocol,
     models |-> config.models, enabled |-> config.enabled]

\* create_text_backend; client_ok: reqwest's Client::builder().build() succeeded.
CreateTextBackend(config, client_ok) ==
    IF config.protocol = "grpc"
    THEN [err |-> "Internal", val |-> None]
    ELSE IF client_ok
         THEN [err |-> "Ok", val |-> Some(TextAdapter(config))]
         ELSE [err |-> "Internal", val |-> None]

\* Mutant of InsertModels: a model that is already bound keeps its owner.
InsertModelsFirstWins(m2b, models, name) ==
    [m \in (DOMAIN m2b) \cup models |-> IF m \in DOMAIN m2b THEN m2b[m] ELSE name]

\* The loop of add_backend over config.models: each model is bound to name,
\* whatever it was bound to before.
InsertModels(m2b, models, name) ==
    [m \in (DOMAIN m2b) \cup models |-> IF m \in models THEN name ELSE m2b[m]]

\* DashMap::retain(|_, v| v != name)
RetainNot(m2b, name) == [m \in {x \in DOMAIN m2b : m2b[x] # name} |-> m2b[m]]

\* Mutant of TextAddBackendResult: the model mappings are not registered.
TextAddBackendResultNoMapping(tb, m2b, config, client_ok) ==
    IF config.backend_type # "text"
    THEN [err |-> "Internal", backends |-> tb, model_to_backend |-> m2b]
    ELSE LET created == CreateTextBackend(config, client_ok) IN
         IF created.err # "Ok"
         THEN [err |-> created.err, backends |-> tb, model_to_backend |-> m2b]
         ELSE [err |-> "Ok",
               backends |-> MapInsert(tb, config.name, CHOOSE a \in created.val : TRUE),
               model_to_backend |-> m2b]

\* TextBackendRegistry::add_backend: the error it returns and the maps it
\* leaves. There is no check for a name that is already registered.
TextAddBackendResult(tb, m2b, config, client_ok) ==
    IF config.backend_type # "text"
    THEN [err |-> "Internal", backends |-> tb, model_to_backend |-> m2b]
    ELSE LET created == CreateTextBackend(config, client_ok) IN
         IF created.err # "Ok"
         THEN [err |-> created.err, backends |-> tb, model_to_backend |-> m2b]
         ELSE [err |-> "Ok",
               backends |-> MapInsert(tb, config.name, CHOOSE a \in created.val : TRUE),
               model_to_backend |-> InsertModels(m2b, config.models, config.name)]

\* Mutant of TextRemoveBackendResult: the mappings are purged and Ok is
\* returned whether or not the name is registered.
TextRemoveBackendResultAlwaysOk(tb, m2b, name) ==
    [err |-> "Ok", backends |-> MapRemove(tb, name),
     model_to_backend |-> RetainNot(m2b, name)]

\* Mutant of TextRemoveBackendResult: the model mappings are not purged.
TextRemoveBackendResultNoPurge(tb, m2b, name) ==
    IF name \in DOMAIN tb
    THEN [err |-> "Ok", backends |-> MapRemove(tb, name), model_to_backend |-> m2b]
    ELSE [err |-> "BackendNotFound", backends |-> tb, model_to_backend |-> m2b]

\* TextBackendRegistry::remove_backend
TextRemoveBackendResult(tb, m2b, name) ==
    IF name \in DOMAIN tb
    THEN [err |-> "Ok", backends |-> MapRemove(tb, name),
          model_to_backend |-> RetainNot(m2b, name)]
    ELSE [err |-> "BackendNotFound", backends |-> tb, model_to_backend |-> m2b]

Ok(a) == [err |-> "Ok", val |-> Some(a)]
Err(e) == [err |-> e, val |-> None]

\* Mutant of GetBackendForModel: a preferred backend is returned only if enabled.
GetBackendForModelPreferredEnabled(tb, m2b, model, preferred) ==
    LET hit == {n \in preferred : n \in DOMAIN tb /\ tb[n].enabled}
        withModel == {n \in DOMAIN tb : tb[n].enabled /\ model \in tb[n].models}
        anyEnabled == {n \in DOMAIN tb : tb[n].enabled}
    IN  IF hit # {}
        THEN {Ok(tb[n]) : n \in hit}
        ELSE IF /\ model \in DOMAIN m2b
                /\ m2b[model] \in DOMAIN tb
                /\ tb[m2b[model]].enabled
        THEN {Ok(tb[m2b[model]])}
        ELSE IF withModel # {}
        THEN {Ok(tb[n]) : n \in withModel}
        ELSE IF anyEnabled # {}
        THEN {Ok(tb[n]) : n \in anyEnabled}
        ELSE {Err("NoHealthyBackends")}

\* Mutant of GetBackendForModel: no fall-back to an adapter that does not
\* declare the model.
GetBackendForModelNoFallback(tb, m2b, model, preferred) ==
    LET hit == {n \in preferred : n \in DOMAIN tb}
        withModel == {n \in DOMAIN tb : tb[n].enabled /\ model \in tb[n].models}
    IN  IF hit # {}
        THEN {Ok(tb[n]) : n \in hit}
        ELSE IF /\ model \in DOMAIN m2b
                /\ m2b[model] \in DOMAIN tb
                /\ tb[m2b[model]].enabled
        THEN {Ok(tb[m2b[model]])}
        ELSE IF withModel # {}
        THEN {Ok(tb[n]) : n \in withModel}
        ELSE {Err("NoHealthyBackends")}

\* TextBackendRegistry::get_backend_for_model. preferred is an Option<name>.
\* The two scans return the first match in the map's iteration order, which
\* is not fixed: the value is the set of results the call may return.
GetBackendForModel(tb, m2b, model, preferred) ==
    LET hit == {n \in preferred : n \in DOMAIN tb}
        withModel == {n \in DOMAIN tb : tb[n].enabled /\ model \in tb[n].models}
        anyEnabled == {n \in DOMAIN tb : tb[n].enabled}
    IN  IF hit # {}
        THEN {Ok(tb[n]) : n \in hit}
        ELSE IF /\ model \in DOMAIN m2b
                /\ m2b[model] \in DOMAIN tb
                /\ tb[m2b[model]].enabled
        THEN {Ok(tb[m2b[model]])}
        ELSE IF withModel # {}
        THEN {Ok(tb[n]) : n \in withModel}
        ELSE IF anyEnabled # {}
        THEN {Ok(tb[n]) : n \in anyEnabled}
        ELSE {Err("NoHealthyBackends")}

\* fresh after a successful add of config: the add touches its own name and
\* every backend whose recorded models meet config.models.
FreshAfterAdd(f, config) ==
    [n \in Names |->
        IF n = config.name
        THEN (IF config.enabled THEN config.models ELSE {})
        ELSE IF f[n] \cap config.models # {} THEN {} ELSE f[n]]

TextAddBackend(config, client_ok) ==
    LET r == TextAddBackendResult(text_backends, model_to_backend, config, client_ok) IN
    /\ text_backends' = r.backends
    /\ model_to_backend' = r.model_to_backend
    /\ fresh' = IF r.err = "Ok" THEN FreshAfterAdd(fresh, config) ELSE fresh
    /\ removed' = IF r.err = "Ok" THEN removed \ {config.name} ELSE removed
    /\ last' = Call("text_add_backend", config.name, r.err, RegistryLen(text_backends))
    /\ UNCHANGED <<imageVars, adapterVars, gatewayVars, restVars>>

TextRemoveBackend(name) ==
    LET r == TextRemoveBackendResult(text_backends, model_to_backend, name) IN
    /\ text_backends' = r.backends
    /\ model_to_backend' = r.model_to_backend
    /\ fresh' = IF r.err = "Ok" THEN [fresh EXCEPT ![name] = {}] ELSE fresh
    /\ removed' = IF r.err = "Ok" THEN removed \cup {name} ELSE removed
    /\ last' = Call("text_remove_backend", name, r.err, RegistryLen(text_backends))
    /\ UNCHANGED <<imageVars, adapterVars, gatewayVars, restVars>>

TextNext ==
    \/ \E in \in TextAddInputs : TextAddBackend(in[1], in[2])
    \/ \E name \in Names : TextRemoveBackend(name)

TextSpec == Init /\ [][TextNext]_vars

(***************************************************************************)
(* One text adapter: OpenAICompatibleBackend and its TextEndpoints.        *)
(***************************************************************************)
\* The name of the adapter (BackendConfig.name).
AdapterName == AllNames[1]

\* TextEndpoint::new
TextEndpointNew(url) ==
    [url |-> url, healthy |-> TRUE, last_check |-> "None", consecutive_failures |-> 0]

\* Mutant of MarkHealthy: the counter is reset and the flag is left as it is.
MarkHealthyKeepsFlag(e) ==
    [e EXCEPT !.last_check = "Some", !.consecutive_failures = 0]

\* TextEndpoint::mark_healthy
MarkHealthy(e) ==
    [e EXCEPT !.healthy = TRUE, !.last_check = "Some", !.consecutive_failures = 0]

\* Mutant of MarkUnhealthy: the threshold test is > 3 instead of >= 3.
MarkUnhealthyLateThreshold(e) ==
    LET n == e.consecutive_failures + 1 IN
    [e EXCEPT !.consecutive_failures = n,
              !.healthy = IF n > 3 THEN FALSE ELSE e.healthy,
              !.last_check = "Some"]

\* TextEndpoint::mark_unhealthy
MarkUnhealthy(e) ==
    LET n == e.consecutive_failures + 1 IN
    [e EXCEPT !.consecutive_failures = n,
              !.healthy = IF n >= 3 THEN FALSE ELSE e.healthy,
              !.last_check = "Some"]

\* endpoints.iter_mut().find(|e| e.url == url): the first endpoint with the
\* url, as a set of at most one index.
FindUrl(eps, url) ==
    {i \in 1..Len(eps) : eps[i].url = url /\ \A j \in 1..(i - 1) : eps[j].url # url}

\* OpenAICompatibleBackend::mark_endpoint_healthy
MarkEndpointHealthy(eps, url) ==
    IF FindUrl(eps, url) = {} THEN eps
    ELSE [eps EXCEPT ![CHOOSE i \in FindUrl(eps, url) : TRUE] = MarkHealthy(@)]

\* OpenAICompatibleBackend::mark_endpoint_unhealthy
MarkEndpointUnhealthy(eps, url) ==
    IF FindUrl(eps, url) = {} THEN eps
    ELSE [eps EXCEPT ![CHOOSE i \in FindUrl(eps, url) : TRUE] = MarkUnhealthy(@)]

IsHealthy(e) == e.healthy

\* Mutant of GetNextEndpoint: the index into the healthy endpoints is used
\* on the whole list.
GetNextEndpointIndexesAll(eps, index) ==
    LET healthy_endpoints == SelectSeq(eps, LAMBDA e : e.healthy) IN
    IF Len(healthy_endpoints) = 0
    THEN [url |-> None, index |-> index]
    ELSE LET next == (index + 1) % Len(healthy_endpoints) IN
         [url |-> Some(eps[next + 1].url), index |-> next]

\* Mutant of GetNextEndpoint: the endpoints are not filtered on healthy.
GetNextEndpointAny(eps, index) ==
    IF Len(eps) = 0
    THEN [url |-> None, index |-> index]
    ELSE LET next == (index + 1) % Len(eps) IN
         [url |-> Some(eps[next + 1].url), index |-> next]

\* Mutant of GetNextEndpoint: the cursor is not advanced.
GetNextEndpointStuckCursor(eps, index) ==
    LET healthy_endpoints == SelectSeq(eps, IsHealthy) IN
    IF Len(healthy_endpoints) = 0
    THEN [url |-> None, index |-> index]
    ELSE LET next == index % Len(healthy_endpoints) IN
         [url |-> Some(healthy_endpoints[next + 1].url), index |-> next]

\* Mutant of GetNextEndpoint: the stored cursor is not reduced modulo the
\* number of healthy endpoints.
GetNextEndpointUnreducedCursor(eps, index) ==
    LET healthy_endpoints == SelectSeq(eps, IsHealthy) IN
    IF Len(healthy_endpoints) = 0
    THEN [url |-> None, index |-> index]
    ELSE LET next == (index + 1) % Len(healthy_endpoints) IN
         [url |-> Some(healthy_endpoints[next + 1].url),
          index |-> IF next = 0 THEN Len(healthy_endpoints) ELSE next]

\* Mutant of GetNextEndpoint: the cursor advances by two.
GetNextEndpointSkipsOne(eps, index) ==
    LET healthy_endpoints == SelectSeq(eps, IsHealthy) IN
    IF Len(healthy_endpoints) = 0
    THEN [url |-> None, index |-> index]
    ELSE LET next == (index + 2) % Len(healthy_endpoints) IN
         [url |-> Some(healthy_endpoints[next + 1].url), index |-> next]

\* OpenAICompatibleBackend::get_next_endpoint: the url it returns (an
\* Option) and the cursor it leaves. The cursor is advanced, then used.
GetNextEndpoint(eps, index) ==
    LET healthy_endpoints == SelectSeq(eps, IsHealthy) IN
    IF Len(healthy_endpoints) = 0
    THEN [url |-> None, index |-> index]
    ELSE LET next == (index + 1) % Len(healthy_endpoints) IN
         [url |-> Some(healthy_endpoints[next + 1].url), index |-> next]

\* Mutant of ProbePasses: a 401 answer fails the probe.
ProbePassesWithoutUnauthorized(outcome) == outcome \in {"ok", "unparseable"}

\* Mutant of Status: healthy requires every endpoint to be healthy.
StatusAllHealthy(eps) ==
    [name |-> AdapterName,
     endpoints |-> [i \in 1..Len(eps) |-> eps[i].url],
     healthy |-> \A i \in 1..Len(eps) : eps[i].healthy]

\* OpenAICompatibleBackend::status: the fields computed from the endpoints.
Status(eps) ==
    [name |-> AdapterName,
     endpoints |-> [i \in 1..Len(eps) |-> eps[i].url],
     healthy |-> \E i \in 1..Len(eps) : eps[i].healthy]

\* What the upstream does with a request: no answer (connect, timeout, TLS),
\* 2xx with a body that parses, 2xx with a body that does not, 401, another
\* status below 500, a status of 500 or more.
Outcomes == {"transport_error", "ok", "unparseable", "unauthorized",
             "client_error", "server_error"}

\* chat_completion and text_completion after the endpoint is chosen: the
\* error kind returned and the endpoints left.
CompletionResult(eps, url, outcome) ==
    CASE outcome = "transport_error" ->
            [err |-> "HttpClient", endpoints |-> MarkEndpointUnhealthy(eps, url)]
      [] outcome = "ok" ->
            [err |-> "Ok", endpoints |-> MarkEndpointHealthy(eps, url)]
      [] outcome = "unparseable" ->
            [err |-> "BackendError", endpoints |-> eps]
      [] outcome = "server_error" ->
            [err |-> "BackendError", endpoints |-> MarkEndpointUnhealthy(eps, url)]
      [] OTHER ->
            [err |-> "BackendError", endpoints |-> eps]

\* list_models after the endpoint is chosen. "OkConfigured": the list built
\* from the adapter's configured models is returned.
ListModelsResult(eps, url, outcome) ==
    CASE outcome = "transport_error" ->
            [err |-> "HttpClient", endpoints |-> MarkEndpointUnhealthy(eps, url)]
      [] outcome = "ok" ->
            [err |-> "Ok", endpoints |-> MarkEndpointHealthy(eps, url)]
      [] outcome = "unparseable" ->
            [err |-> "BackendError", endpoints |-> eps]
      [] OTHER ->
            [err |-> "OkConfigured", endpoints |-> eps]

\* The match of health_check on one probe: 2xx (the body is not read) and
\* 401 pass, everything else fails.
ProbePasses(outcome) == outcome \in {"ok", "unparseable", "unauthorized"}

\* The loop of health_check over the snapshot of the endpoints, from the
\* i-th on: the endpoints left.
RECURSIVE ProbeFrom(_, _, _, _)
ProbeFrom(eps, snapshot, outcomes, i) ==
    IF i > Len(snapshot)
    THEN eps
    ELSE ProbeFrom(IF ProbePasses(outcomes[i])
                   THEN MarkEndpointHealthy(eps, snapshot[i].url)
                   ELSE MarkEndpointUnhealthy(eps, snapshot[i].url),
                   snapshot, outcomes, i + 1)

\* Mutant of HealthCheckResult: the result is the aggregate flag before the
\* probes instead of any_healthy.
HealthCheckResultStaleFlag(eps, outcomes) ==
    [any_healthy |-> \E i \in 1..Len(eps) : eps[i].healthy,
     endpoints |-> ProbeFrom(eps, eps, outcomes, 1)]

\* health_check: its boolean result (any_healthy) and the endpoints left.
HealthCheckResult(eps, outcomes) ==
    [any_healthy |-> \E i \in 1..Len(eps) : ProbePasses(outcomes[i]),
     endpoints |-> ProbeFrom(eps, eps, outcomes, 1)]

\* The history variable streak. A failure of a call is an outcome the
\* gateway counts against the endpoint: no answer from the upstream on any
\* call, a status of 500 or more on a completion, a probe that does not
\* pass. A success is a 2xx answer that parses, or a probe that passes.
IsFailure(op, outcome) ==
    \/ outcome = "transport_error"
    \/ op \in {"chat_completion", "text_completion"} /\ outcome = "server_error"
    \/ op = "health_check" /\ ~(outcome \in {"ok", "unparseable", "unauthorized"})
IsSuccess(op, outcome) ==
    \/ op # "health_check" /\ outcome = "ok"
    \/ op = "health_check" /\ outcome \in {"ok", "unparseable", "unauthorized"}
StreakAfter(n, op, outcome) ==
    IF IsSuccess(op, outcome) THEN 0
    ELSE IF IsFailure(op, outcome) THEN n + 1 ELSE n

\* The counters stay within the bound of the model.
WithinBound(eps) == \A i \in 1..Len(eps) : eps[i].consecutive_failures <= MaxFailures

\* A request of kind op (chat_completion, text_completion, list_models)
\* that the upstream answers with outcome.
Request(op, outcome) ==
    LET sel == GetNextEndpoint(endpoints, current_endpoint_index) IN
    IF sel.url = None
    THEN /\ last' = [Call(op, "", "NoHealthyBackends", Len(endpoints))
                        EXCEPT !.backend = AdapterName]
         /\ UNCHANGED <<endpoints, current_endpoint_index, streak>>
    ELSE LET url == CHOOSE u \in sel.url : TRUE
             r == IF op = "list_models"
                  THEN ListModelsResult(endpoints, url, outcome)
                  ELSE CompletionResult(endpoints, url, outcome)
         IN  /\ WithinBound(r.endpoints)
             /\ endpoints' = r.endpoints
             /\ current_endpoint_index' = sel.index
             /\ streak' = [i \in 1..Len(endpoints) |->
                            IF endpoints[i].url = url
                            THEN StreakAfter(streak[i], op, outcome)
                            ELSE streak[i]]
             /\ last' = [Call(op, url, r.err, Len(endpoints)) EXCEPT !.outcome = outcome]

ChatCompletion(outcome) ==
    Request("chat_completion", outcome) /\ UNCHANGED <<imageVars, textVars, gatewayVars, restVars>>

TextCompletion(outcome) ==
    Request("text_completion", outcome) /\ UNCHANGED <<imageVars, textVars, gatewayVars, restVars>>

ListModels(outcome) ==
    Request("list_models", outcome) /\ UNCHANGED <<imageVars, textVars, gatewayVars, restVars>>

\* One answer per endpoint probed, for every number of endpoints.
ProbeOutcomes == UNION {[1..k -> Outcomes] : k \in 0..NumEndpoints}

HealthCheck(outcomes) ==
    LET r == HealthCheckResult(endpoints, outcomes) IN
    /\ DOMAIN outcomes = 1..Len(endpoints)
    /\ WithinBound(r.endpoints)
    /\ endpoints' = r.endpoints
    /\ streak' = [i \in 1..Len(endpoints) |->
                    StreakAfter(streak[i], "health_check", outcomes[i])]
    /\ last' = Call("health_check", "", IF r.any_healthy THEN "true" ELSE "false",
                    Len(endpoints))
    /\ UNCHANGED <<current_endpoint_index, imageVars, textVars, gatewayVars, restVars>>

\* OpenAICompatibleBackend::new on a config with k endpoints of distinct urls.
AdapterInit ==
    /\ InitRegistries
    /\ InitGateway
    /\ InitRest
    /\ \E k \in 0..NumEndpoints :
        /\ endpoints = [i \in 1..k |-> TextEndpointNew(AllUrls[i])]
        /\ streak = [i \in 1..k |-> 0]
    /\ current_endpoint_index = 0

AdapterNext ==
    \/ \E outcome \in Outcomes : ChatCompletion(outcome)
    \/ \E outcome \in Outcomes : TextCompletion(outcome)
    \/ \E outcome \in Outcomes : ListModels(outcome)
    \/ \E outcomes \in ProbeOutcomes : HealthCheck(outcomes)

AdapterSpec == AdapterInit /\ [][AdapterNext]_vars

(***************************************************************************)
(* Both registries side by side, as the gateway holds them. The calls      *)
(* drawn per registry are fewer: one image adapter per name, enabled text  *)
(* backends only.                                                          *)
(***************************************************************************)
BothImageAddInputs ==
    {in \in ImageAddInputs :
        /\ in[2] /\ in[1].protocol = "http" /\ in[1].enabled
        /\ in[1].weight = 1 /\ in[1].endpoints # <<>>}

BothTextAddInputs ==
    {in \in TextAddInputs :
        in[2] /\ in[1].backend_type = "text" /\ in[1].protocol = "openai" /\ in[1].enabled}

RegistriesNext ==
    \/ \E in \in BothImageAddInputs : AddBackend(in[1], in[2])
    \/ \E name \in Names : RemoveBackend(name)
    \/ \E in \in BothTextAddInputs : TextAddBackend(in[1], in[2])
    \/ \E name \in Names : TextRemoveBackend(name)

RegistriesSpec == Init /\ [][RegistriesNext]_vars

(***************************************************************************)
(* The load balancer over the image registry (gateway::load_balancer).     *)
(***************************************************************************)
MaxCounter == 3

Strategies == {"RoundRobin", "WeightedRoundRobin", "Random", "LeastConnections"}

\* A name beyond Names, for a backend that is registered but never healthy.
SpareName == AllNames[NumNames + 1]
GatewayNames == Names \cup {SpareName}

\* The orders a map holding the names S may iterate in.
Perms(S) ==
    {f \in [1..Cardinality(S) -> S] : \A x \in S : \E i \in 1..Cardinality(S) : f[i] = x}
AllOrders == UNION {Perms(S) : S \in SUBSET GatewayNames}
IsOrderOf(ord, S) ==
    Len(ord) = Cardinality(S) /\ {ord[i] : i \in 1..Len(ord)} = S

\* BackendRegistry::get_all as the Vec it returns, in the map's order.
GetAllOrdered(b, ord) == [i \in 1..Len(ord) |-> b[ord[i]]]

\* Mutant of GetHealthy: the result of the health probe is not tested.
GetHealthyIgnoresProbe(b, ord, u) ==
    SelectSeq(GetAllOrdered(b, ord), LAMBDA a : a.enabled)

\* BackendRegistry::get_healthy: the adapters that are enabled and whose
\* health_check() passes (u: the names whose upstream passes a probe).
GetHealthy(b, ord, u) ==
    SelectSeq(GetAllOrdered(b, ord), LAMBDA a : a.enabled /\ a.name \in u)

\* The names of the healthy set.
HealthyNames(b, u) == {n \in DOMAIN b : b[n].enabled /\ n \in u}

\* weight copies of an adapter.
Repeat(a, n) == [i \in 1..n |-> a]

\* Weighted round-robin: each healthy adapter appears weight times.
RECURSIVE Expand(_)
Expand(healthy) ==
    IF healthy = <<>> THEN <<>>
    ELSE Repeat(Head(healthy), Head(healthy).weight) \o Expand(Tail(healthy))

\* Mutant of SelectBackend: a name that is not registered falls back to the
\* strategy, and a named backend advances the counter.
SelectBackendNamedFallsBack(b, ord, u, strat, cnt, backend_name) ==
    LET healthy == GetHealthy(b, ord, u) IN
    IF \E n \in backend_name : n \in DOMAIN b
    THEN {[err |-> "Ok", val |-> Some(b[n]), counter |-> cnt + 1] : n \in backend_name}
    ELSE IF Len(healthy) = 0
    THEN {[err |-> "NoHealthyBackends", val |-> None, counter |-> cnt]}
    ELSE {[err |-> "Ok", val |-> Some(healthy[(cnt % Len(healthy)) + 1]),
           counter |-> cnt + 1]}

\* Mutant of SelectBackend: round-robin does not advance the counter.
SelectBackendStuckCounter(b, ord, u, strat, cnt, backend_name) ==
    LET healthy == GetHealthy(b, ord, u) IN
    IF backend_name # None
    THEN {IF Get(b, n) = None
          THEN [err |-> "BackendNotFound", val |-> None, counter |-> cnt]
          ELSE [err |-> "Ok", val |-> Get(b, n), counter |-> cnt] : n \in backend_name}
    ELSE IF Len(healthy) = 0
    THEN {[err |-> "NoHealthyBackends", val |-> None, counter |-> cnt]}
    ELSE {[err |-> "Ok", val |-> Some(healthy[(cnt % Len(healthy)) + 1]),
           counter |-> cnt]}

\* LoadBalancer::select_backend(backend_name): the results it may return,
\* each with the counter it leaves. Random and least-connections may return
\* any healthy adapter (the random draw and the outstanding-request counts
\* are not part of the state).
SelectBackend(b, ord, u, strat, cnt, backend_name) ==
    LET healthy == GetHealthy(b, ord, u) IN
    IF backend_name # None
    THEN {IF Get(b, n) = None
          THEN [err |-> "BackendNotFound", val |-> None, counter |-> cnt]
          ELSE [err |-> "Ok", val |-> Get(b, n), counter |-> cnt] : n \in backend_name}
    ELSE IF Len(healthy) = 0
    THEN {[err |-> "NoHealthyBackends", val |-> None, counter |-> cnt]}
    ELSE CASE strat = "RoundRobin" ->
                {[err |-> "Ok", val |-> Some(healthy[(cnt % Len(healthy)) + 1]),
                  counter |-> cnt + 1]}
           [] strat = "WeightedRoundRobin" ->
                LET expansion == Expand(healthy) IN
                {[err |-> "Ok", val |-> Some(expansion[(cnt % Len(expansion)) + 1]),
                  counter |-> cnt + 1]}
           [] OTHER ->
                {[err |-> "Ok", val |-> Some(healthy[i]), counter |-> cnt] :
                    i \in 1..Len(healthy)}

\* The name of the adapter a result carries, "" for an error.
NameOf(r) == IF r.val = None THEN "" ELSE (CHOOSE a \in r.val : TRUE).name

\* The history of round-robin picks after a change of the registry or of
\* the upstreams: it restarts when the healthy set changes, and stable_from
\* notes a change of the registry that leaves the healthy set as it was.
HistoryAfterChange(b2, u2) ==
    IF HealthyNames(b2, u2) # HealthyNames(backends, up)
    THEN picks' = <<>> /\ stable_from' = 0
    ELSE /\ picks' = picks
         /\ stable_from' = IF b2 # backends THEN Len(picks) ELSE stable_from

\* BackendRegistry::add_backend seen from the gateway: the map may iterate
\* in any order once a key is inserted.
GatewayAddBackend(config, ord) ==
    LET r == AddBackendResult(backends, config, TRUE)
        u2 == IF r.err = "Ok" /\ config.enabled THEN up \cup {config.name} ELSE up
    IN  /\ IF r.err = "Ok" THEN IsOrderOf(ord, DOMAIN r.backends) ELSE ord = order
        /\ backends' = r.backends
        /\ registered' = IF r.err = "Ok" THEN registered \cup {config.name} ELSE registered
        /\ order' = ord
        /\ up' = u2
        /\ HistoryAfterChange(r.backends, u2)
        /\ last' = Call("add_backend", config.name, r.err, RegistryLen(backends))
        /\ UNCHANGED <<textVars, adapterVars, strategy, counter, router_config, restVars>>

\* BackendRegistry::remove_backend seen from the gateway: the entries that
\* stay keep their order.
GatewayRemoveBackend(name) ==
    LET r == RemoveBackendResult(backends, name)
        u2 == up \ {name}
    IN  /\ backends' = r.backends
        /\ registered' = IF r.err = "Ok" THEN registered \ {name} ELSE registered
        /\ order' = SelectSeq(order, LAMBDA n : n # name)
        /\ up' = u2
        /\ HistoryAfterChange(r.backends, u2)
        /\ last' = Call("remove_backend", name, r.err, RegistryLen(backends))
        /\ UNCHANGED <<textVars, adapterVars, strategy, counter, router_config, restVars>>

\* The upstream of a registered, enabled backend goes down or comes back.
UpstreamChanges(name) ==
    LET u2 == IF name \in up THEN up \ {name} ELSE up \cup {name} IN
    /\ name \in DOMAIN backends /\ backends[name].enabled
    /\ up' = u2
    /\ HistoryAfterChange(backends, u2)
    /\ last' = Call("upstream_changes", name, "Ok", RegistryLen(backends))
    /\ UNCHANGED <<imageVars, textVars, adapterVars, order, strategy, counter,
                   router_config, restVars>>

\* LoadBalancer::set_strategy
SetStrategy(s) ==
    /\ strategy' = s
    /\ picks' = <<>> /\ stable_from' = 0
    /\ last' = Call("set_strategy", s, "Ok", RegistryLen(backends))
    /\ UNCHANGED <<imageVars, textVars, adapterVars, up, order, counter, router_config, restVars>>

\* A call of LoadBalancer::select_backend. In the call record, backend is
\* the name asked for ("" for None) and name the adapter returned.
SelectBackendCall(backend_name) ==
    \E r \in SelectBackend(backends, order, up, strategy, counter, backend_name) :
        /\ r.counter <= MaxCounter
        /\ counter' = r.counter
        /\ picks' = IF backend_name = None /\ strategy = "RoundRobin" /\ r.err = "Ok"
                    THEN Append(picks, NameOf(r)) ELSE picks
        /\ last' = [Call("select_backend", NameOf(r), r.err, RegistryLen(backends))
                    EXCEPT !.backend = IF backend_name = None THEN ""
                                       ELSE CHOOSE n \in backend_name : TRUE]
        /\ UNCHANGED <<imageVars, textVars, adapterVars, up, order, strategy,
                       router_config, stable_from, restVars>>

\* add_backend where the new key goes last in the map's order.
AddBackendLast(config, ord) ==
    /\ ord = order \/ ord = Append(order, config.name)
    /\ GatewayAddBackend(config, ord)

\* The backends the load balancer is exercised with: enabled or disabled
\* under every name, one name with either weight; a new key goes last in
\* the map's order.
BalancerAddInputs ==
    {c \in ImageConfigs : /\ c.protocol = "http" /\ c.endpoints # <<>>
                          /\ c.weight = 1 \/ (c.enabled /\ c.name = AllNames[1])}

BackendNames == {None} \cup {Some(n) : n \in Names}

BalancerNext ==
    \/ \E c \in BalancerAddInputs : \E ord \in AllOrders : AddBackendLast(c, ord)
    \/ \E name \in Names : GatewayRemoveBackend(name)
    \/ \E name \in Names : UpstreamChanges(name)
    \/ \E s \in Strategies : SetStrategy(s)
    \/ \E backend_name \in BackendNames : SelectBackendCall(backend_name)

BalancerSpec == Init /\ [][BalancerNext]_vars

\* Round-robin alone: enabled backends of weight 1 under the names of Names,
\* and a disabled backend under the spare name.
RoundRobinAddInputs ==
    {c \in ImageConfigs : /\ c.protocol = "http" /\ c.endpoints # <<>>
                          /\ c.enabled /\ c.weight = 1}
    \cup {[c EXCEPT !.name = SpareName] :
            c \in {x \in ImageConfigs : /\ x.protocol = "http" /\ x.endpoints # <<>>
                                        /\ ~x.enabled /\ x.weight = 1}}

RoundRobinNext ==
    \/ \E c \in RoundRobinAddInputs : \E ord \in AllOrders : GatewayAddBackend(c, ord)
    \/ \E name \in GatewayNames : GatewayRemoveBackend(name)
    \/ \E name \in Names : UpstreamChanges(name)
    \/ SelectBackendCall(None)

RoundRobinSpec == Init /\ [][RoundRobinNext]_vars

(***************************************************************************)
(* The router in front of the load balancer (gateway::router).             *)
(***************************************************************************)
\* The strings of the model, as sequences of the pieces they are made of.
Pieces ==
    [s \in {"gpt-local", "ollama", "vllm", "tgi-box",
            "gpt-local-v1", "ollama-on-gpt-local", "sdxl", "gpt"} |->
        CASE s = "gpt-local" -> <<"gpt", "-", "local">>
          [] s = "ollama" -> <<"ollama">>
          [] s = "vllm" -> <<"vllm">>
          [] s = "tgi-box" -> <<"tgi", "-", "box">>
          [] s = "gpt-local-v1" -> <<"gpt", "-", "local", "-", "v1">>
          [] s = "ollama-on-gpt-local" ->
                <<"ollama", "-", "on", "-", "gpt", "-", "local">>
          [] s = "sdxl" -> <<"sdxl">>
          [] s = "gpt" -> <<"gpt">>]

\* model.contains(name)
IsSubstring(name, model) ==
    LET n == Pieces[name]
        m == Pieces[model]
    IN  \E i \in 0..(Len(m) - Len(n)) : SubSeq(m, i + 1, i + Len(n)) = n

ModelHints == {None} \cup {Some(m) : m \in {"gpt-local-v1", "ollama-on-gpt-local", "sdxl", "gpt"}}

RouterConfigs ==
    [default_backend : {None} \cup {Some(n) : n \in Names}, fallback_enabled : BOOLEAN]

\* Rule 1: the backend the caller names, if it is registered.
RouteNamed(b, backend_name) ==
    {[err |-> "Ok", val |-> Some(b[n])] : n \in backend_name \cap DOMAIN b}

\* Rule 2: the first backend, in registry order, whose name is a substring
\* of the model string.
RouteByModel(b, ord, model) ==
    LET matches == SelectSeq(GetAllOrdered(b, ord),
                             LAMBDA a : \E m \in model : IsSubstring(a.name, m))
    IN  IF matches = <<>> THEN {} ELSE {[err |-> "Ok", val |-> Some(Head(matches))]}

\* Rule 3: the default backend, if one is set and registered.
RouteDefault(b, cfg) ==
    {[err |-> "Ok", val |-> Some(b[d])] : d \in cfg.default_backend \cap DOMAIN b}

\* With the counter a result leaves.
WithCounter(results, cnt) ==
    {[err |-> r.err, val |-> r.val, counter |-> cnt] : r \in results}

\* Mutant of Route: the default backend is tried before the model string.
RouteDefaultBeforeModel(b, ord, u, cfg, strat, cnt, backend_name, model) ==
    IF RouteNamed(b, backend_name) # {}
    THEN WithCounter(RouteNamed(b, backend_name), cnt)
    ELSE IF RouteDefault(b, cfg) # {}
    THEN WithCounter(RouteDefault(b, cfg), cnt)
    ELSE IF RouteByModel(b, ord, model) # {}
    THEN WithCounter(RouteByModel(b, ord, model), cnt)
    ELSE IF cfg.fallback_enabled
    THEN SelectBackend(b, ord, u, strat, cnt, None)
    ELSE {[err |-> "NoHealthyBackends", val |-> None, counter |-> cnt]}

\* Mutant of Route: the default backend is returned only if it is healthy.
RouteDefaultMustBeHealthy(b, ord, u, cfg, strat, cnt, backend_name, model) ==
    IF RouteNamed(b, backend_name) # {}
    THEN WithCounter(RouteNamed(b, backend_name), cnt)
    ELSE IF RouteByModel(b, ord, model) # {}
    THEN WithCounter(RouteByModel(b, ord, model), cnt)
    ELSE IF \E d \in cfg.default_backend : d \in HealthyNames(b, u)
    THEN WithCounter(RouteDefault(b, cfg), cnt)
    ELSE IF cfg.fallback_enabled
    THEN SelectBackend(b, ord, u, strat, cnt, None)
    ELSE {[err |-> "NoHealthyBackends", val |-> None, counter |-> cnt]}

\* Mutant of Route: the load balancer is asked whatever fallback_enabled says.
RouteAlwaysFallsBack(b, ord, u, cfg, strat, cnt, backend_name, model) ==
    IF RouteNamed(b, backend_name) # {}
    THEN WithCounter(RouteNamed(b, backend_name), cnt)
    ELSE IF RouteByModel(b, ord, model) # {}
    THEN WithCounter(RouteByModel(b, ord, model), cnt)
    ELSE IF RouteDefault(b, cfg) # {}
    THEN WithCounter(RouteDefault(b, cfg), cnt)
    ELSE SelectBackend(b, ord, u, strat, cnt, None)

\* Router::route(backend_name, model): the results it may return, each with
\* the round-robin counter it leaves.
Route(b, ord, u, cfg, strat, cnt, backend_name, model) ==
    IF RouteNamed(b, backend_name) # {}
    THEN WithCounter(RouteNamed(b, backend_name), cnt)
    ELSE IF RouteByModel(b, ord, model) # {}
    THEN WithCounter(RouteByModel(b, ord, model), cnt)
    ELSE IF RouteDefault(b, cfg) # {}
    THEN WithCounter(RouteDefault(b, cfg), cnt)
    ELSE IF cfg.fallback_enabled
    THEN SelectBackend(b, ord, u, strat, cnt, None)
    ELSE {[err |-> "NoHealthyBackends", val |-> None, counter |-> cnt]}

\* "" for None.
OrEmpty(opt) == IF opt = None THEN "" ELSE CHOOSE x \in opt : TRUE

\* A call of Router::route.
RouteCall(backend_name, model) ==
    \E r \in Route(backends, order, up, router_config, strategy, counter,
                   backend_name, model) :
        /\ r.counter <= MaxCounter
        /\ counter' = r.counter
        /\ picks' = IF r.counter # counter /\ strategy = "RoundRobin"
                    THEN Append(picks, NameOf(r)) ELSE picks
        /\ last' = [Call("route", NameOf(r), r.err, RegistryLen(backends))
                    EXCEPT !.backend = OrEmpty(backend_name), !.model = OrEmpty(model)]
        /\ UNCHANGED <<imageVars, textVars, adapterVars, up, order, strategy,
                       router_config, stable_from, restVars>>

\* Router::with_config over the empty registry, for every configuration.
RouterInit ==
    /\ InitRegistries
    /\ InitRest
    /\ endpoints = <<>> /\ current_endpoint_index = 0 /\ streak = <<>>
    /\ up = {} /\ order = <<>>
    /\ strategy = "RoundRobin" /\ counter = 0
    /\ router_config \in RouterConfigs
    /\ picks = <<>> /\ stable_from = 0

\* The backends the router is exercised with: enabled, of weight 1 (their
\* upstreams go down and come back).
RouterAddInputs ==
    {c \in ImageConfigs :
        c.protocol = "http" /\ c.endpoints # <<>> /\ c.weight = 1 /\ c.enabled}

RouterNext ==
    \/ \E c \in RouterAddInputs : \E ord \in AllOrders : AddBackendLast(c, ord)
    \/ \E name \in Names : GatewayRemoveBackend(name)
    \/ \E name \in Names : UpstreamChanges(name)
    \/ \E backend_name \in BackendNames : \E model \in ModelHints :
            RouteCall(backend_name, model)

RouterSpec == RouterInit /\ [][RouterNext]_vars

(***************************************************************************)
(* The health-check manager over the image registry                        *)
(* (gateway::health_check, started in main.rs).                            *)
(***************************************************************************)
MaxProbeFailures == 2

\* HealthRecord after a probe: a passing probe gives a healthy record with
\* no failures, a failing one an unhealthy record with one failure more.
RecordAfterProbeLenient(records, name, passed) ==
    LET failures == IF name \in DOMAIN records
                    THEN records[name].consecutive_failures ELSE 0 IN
    IF passed
    THEN [is_healthy |-> TRUE, consecutive_failures |-> 0, last_error |-> None]
    ELSE [is_healthy |-> failures + 1 < 3, consecutive_failures |-> failures + 1,
          last_error |-> Some("probe failed")]

RecordAfterProbe(records, name, passed) ==
    LET failures == IF name \in DOMAIN records
                    THEN records[name].consecutive_failures ELSE 0 IN
    IF passed
    THEN [is_healthy |-> TRUE, consecutive_failures |-> 0, last_error |-> None]
    ELSE [is_healthy |-> FALSE, consecutive_failures |-> failures + 1,
          last_error |-> Some("probe failed")]

\* HealthCheckManager::is_healthy: optimistic while there is no record.
ManagerIsHealthy(records, name) ==
    name \notin DOMAIN records \/ records[name].is_healthy

\* HealthCheckManager::get_status
GetStatus(records, name) ==
    IF name \in DOMAIN records THEN Some(records[name]) ELSE None

\* HealthCheckManager::get_unhealthy_backends
GetUnhealthyBackends(records) ==
    {n \in DOMAIN records : ~records[n].is_healthy}

\* Mutant of GetHealthSummary: the counts are taken from the records alone.
GetHealthSummaryFromRecords(b, records) ==
    [total |-> Cardinality(DOMAIN records),
     healthy |-> Cardinality({n \in DOMAIN records : records[n].is_healthy}),
     unhealthy |-> Cardinality(GetUnhealthyBackends(records))]

\* HealthCheckManager::get_health_summary: the adapters are enumerated from
\* the registry and each one is counted by its latest record.
GetHealthSummary(b, records) ==
    [total |-> Cardinality(DOMAIN b),
     healthy |-> Cardinality({n \in DOMAIN b : ManagerIsHealthy(records, n)}),
     unhealthy |-> Cardinality({n \in DOMAIN b : ~ManagerIsHealthy(records, n)})]

\* BackendRegistry::add_backend and remove_backend while the manager runs:
\* a change of the registry restarts the history of cycles.
ManagerAddBackend(config) ==
    LET r == AddBackendResult(backends, config, TRUE) IN
    /\ backends' = r.backends
    /\ registered' = IF r.err = "Ok" THEN registered \cup {config.name} ELSE registered
    /\ cycles' = IF r.err = "Ok" THEN [done |-> 0, clean |-> FALSE] ELSE cycles
    /\ last' = Call("add_backend", config.name, r.err, RegistryLen(backends))
    /\ UNCHANGED <<textVars, adapterVars, gatewayVars, health_records, probing,
                   dispatchVars, parseVars, callVars, taskVars>>

ManagerRemoveBackend(name) ==
    LET r == RemoveBackendResult(backends, name) IN
    /\ backends' = r.backends
    /\ registered' = IF r.err = "Ok" THEN registered \ {name} ELSE registered
    /\ cycles' = IF r.err = "Ok" THEN [done |-> 0, clean |-> FALSE] ELSE cycles
    /\ up' = up \ {name}
    /\ last' = Call("remove_backend", name, r.err, RegistryLen(backends))
    /\ UNCHANGED <<textVars, adapterVars, order, strategy, counter, router_config,
                   picks, stable_from, health_records, probing,
                   dispatchVars, parseVars, callVars, taskVars>>

\* A tick of the background task: the adapters registered now are the ones
\* this cycle probes. The cycle counts for the history when every upstream
\* is down as it starts.
StartCycle ==
    /\ probing = {}
    /\ probing' = DOMAIN backends
    /\ cycles' = IF up \cap DOMAIN backends = {}
                 THEN [cycles EXCEPT !.clean = TRUE]
                 ELSE [done |-> 0, clean |-> FALSE]
    /\ health_records' = health_records
    /\ last' = Call("start_cycle", "", "Ok", RegistryLen(backends))
    /\ UNCHANGED <<imageVars, textVars, adapterVars, gatewayVars,
                   dispatchVars, parseVars, callVars, taskVars>>

\* One probe of the running cycle returns: the adapter of the snapshot is
\* probed even when it has been removed meanwhile, and its record is
\* replaced. The cycle is over with its last probe.
ProbeBackend(name) ==
    LET passed == name \in up
        record == RecordAfterProbe(health_records, name, passed)
    IN  /\ name \in probing
        /\ record.consecutive_failures <= MaxProbeFailures
        /\ health_records' = MapInsert(health_records, name, record)
        /\ probing' = probing \ {name}
        /\ cycles' = IF passed THEN [cycles EXCEPT !.done = 0, !.clean = FALSE]
                     ELSE IF probing = {name} /\ cycles.clean
                          THEN [cycles EXCEPT !.done = IF @ < 2 THEN @ + 1 ELSE @]
                          ELSE cycles
        /\ last' = Call("health_probe", name, IF passed THEN "true" ELSE "false",
                        RegistryLen(backends))
        /\ UNCHANGED <<imageVars, textVars, adapterVars, gatewayVars,
                       dispatchVars, parseVars, callVars, taskVars>>

\* A call of get_health_summary, as the /health handler makes it.
GetHealthSummaryCall ==
    /\ last' = Call("get_health_summary", "", "Ok", RegistryLen(backends))
                  @@ [summary |-> GetHealthSummary(backends, health_records)]
    /\ UNCHANGED <<imageVars, textVars, adapterVars, gatewayVars, restVars>>

ManagerNext ==
    \/ \E c \in RouterAddInputs : ManagerAddBackend(c)
    \/ \E name \in Names : ManagerRemoveBackend(name)
    \/ \E name \in Names : UpstreamChanges(name)
    \/ StartCycle
    \/ \E name \in Names : ProbeBackend(name)
    \/ GetHealthSummaryCall

\* HealthCheckManager::new over the empty registry, no cycle run yet.
ManagerSpec == Init /\ [][ManagerNext]_vars

(***************************************************************************)
(* The request queue in front of the load balancer (queue::request_queue,  *)
(* built in main.rs over the load balancer and called by generate_image).  *)
(***************************************************************************)
MaxDispatches == 2

\* Mutant of Resolve: the explicit name is not passed on to the selection.
ResolveByStrategy(b, ord, u, strat, cnt, explicit) ==
    SelectBackend(b, ord, u, strat, cnt, None)

\* RequestQueue::submit, step 1: one adapter is selected for the request,
\* the explicit name taking precedence.
Resolve(b, ord, u, strat, cnt, explicit) ==
    SelectBackend(b, ord, u, strat, cnt, explicit)

\* What the adapter's generate_image returns to submit: the response, or
\* the adapter's own error, unchanged.
GenerateOutcomes == {"ok", "backend_error"}
GenerateResult(outcome) == IF outcome = "ok" THEN "Ok" ELSE "BackendError"

\* generate_image calls submit: the adapter is selected and submit holds a
\* reference to it while the upstream call is in flight. A failed selection
\* is returned at once.
Submit(explicit) ==
    \E r \in Resolve(backends, order, up, strategy, counter, explicit) :
        /\ r.counter <= MaxCounter
        /\ counter' = r.counter
        /\ IF r.err = "Ok"
           THEN /\ BagCardinality(dispatches) < MaxDispatches
                /\ dispatches' = dispatches (+)
                      SetToBag({[target |-> explicit, held |-> r.val]})
                /\ last' = [Call("select", NameOf(r), "Ok", RegistryLen(backends))
                               EXCEPT !.backend = OrEmpty(explicit)]
           ELSE /\ dispatches' = dispatches
                /\ last' = [Call("submit", "", r.err, RegistryLen(backends))
                               EXCEPT !.backend = OrEmpty(explicit)]
        /\ UNCHANGED <<imageVars, textVars, adapterVars, up, order, strategy,
                       router_config, picks, stable_from,
                       managerVars, parseVars, callVars, taskVars>>

\* submit, steps 2 and 3: the adapter held answers and its answer is
\* returned. In the call record, backend is the name asked for and name the
\* adapter that answered.
Generate(d, outcome) ==
    /\ BagIn(d, dispatches)
    /\ dispatches' = dispatches (-) SetToBag({d})
    /\ last' = [Call("submit", OrEmpty({a.name : a \in d.held}),
                     GenerateResult(outcome), RegistryLen(backends))
                   EXCEPT !.backend = OrEmpty(d.target), !.outcome = outcome]
    /\ UNCHANGED <<imageVars, textVars, adapterVars, gatewayVars,
                   managerVars, parseVars, callVars, taskVars>>

\* add_backend where the map iterates the new key last.
AddBackendAppend(config) ==
    GatewayAddBackend(config, IF config.name \in DOMAIN backends THEN order
                              ELSE Append(order, config.name))

\* The dispatches that can be in flight.
DispatchRecords ==
    {[target |-> t, held |-> Some(ImageAdapter(c))] :
        t \in BackendNames, c \in RouterAddInputs}

DispatchNext ==
    \/ \E c \in RouterAddInputs : AddBackendAppend(c)
    \/ \E name \in Names : GatewayRemoveBackend(name)
    \/ \E name \in Names : UpstreamChanges(name)
    \/ \E explicit \in BackendNames : Submit(explicit)
    \/ \E d \in DispatchRecords : \E outcome \in GenerateOutcomes : Generate(d, outcome)

DispatchSpec == Init /\ [][DispatchNext]_vars

(***************************************************************************)
(* Both registries under adds and removes, with the upstreams of the image *)
(* backends going down and coming back: the states a selection starts in.  *)
(* The registries share no state (AppState holds them apart, lib.rs), so   *)
(* the calls on one registry are drawn while the other one is empty.       *)
(***************************************************************************)
\* The text backends drawn here: enabled, declaring one model.
SelectionTextAddInputs == {in \in BothTextAddInputs : Cardinality(in[1].models) = 1}

SelectionAddBackend(config) ==
    text_backends = EmptyMap /\ AddBackendAppend(config)

SelectionRemoveBackend(name) ==
    text_backends = EmptyMap /\ GatewayRemoveBackend(name)

SelectionUpstreamChanges(name) ==
    text_backends = EmptyMap /\ UpstreamChanges(name)

SelectionTextAddBackend(config, client_ok) ==
    backends = EmptyMap /\ TextAddBackend(config, client_ok)

SelectionTextRemoveBackend(name) ==
    backends = EmptyMap /\ TextRemoveBackend(name)

SelectionNext ==
    \/ \E c \in RouterAddInputs : SelectionAddBackend(c)
    \/ \E name \in Names : SelectionRemoveBackend(name)
    \/ \E name \in Names : SelectionUpstreamChanges(name)
    \/ \E in \in SelectionTextAddInputs : SelectionTextAddBackend(in[1], in[2])
    \/ \E name \in Names : SelectionTextRemoveBackend(name)

SelectionSpec == RouterInit /\ [][SelectionNext]_vars

(***************************************************************************)
(* GenerateImageRequest::parse_size (src/src/api/models.rs).               *)
(***************************************************************************)
MaxSizeLen == 4

\* The characters size strings are drawn from: digits, the separator, a
\* letter.
Digits == <<"0", "1", "2">>
IsDigit(c) == \E i \in 1..Len(Digits) : Digits[i] = c
DigitValue(c) == (CHOOSE i \in 1..Len(Digits) : Digits[i] = c) - 1
SizeChars == {Digits[i] : i \in 1..Len(Digits)} \cup {"x", "a"}
SizeStrings == UNION {[1..n -> SizeChars] : n \in 0..MaxSizeLen}

\* str::split(sep): the pieces between the separators, empty ones included.
RECURSIVE SplitFrom(_, _, _)
SplitFrom(s, sep, piece) ==
    IF s = <<>> THEN <<piece>>
    ELSE IF Head(s) = sep THEN <<piece>> \o SplitFrom(Tail(s), sep, <<>>)
    ELSE SplitFrom(Tail(s), sep, Append(piece, Head(s)))

Split(s, sep) == SplitFrom(s, sep, <<>>)

\* The number a string of decimal digits denotes.
RECURSIVE DecimalValue(_)
DecimalValue(s) ==
    IF s = <<>> THEN 0
    ELSE 10 * DecimalValue(SubSeq(s, 1, Len(s) - 1)) + DigitValue(s[Len(s)])

\* str::parse::<u32>: a non-empty string of digits whose value fits 32 bits
\* (up to nine digits always fit; longer strings are not drawn).
ParseU32(s) ==
    IF s # <<>> /\ (\A i \in 1..Len(s) : IsDigit(s[i])) /\ Len(s) <= 9
    THEN Some(DecimalValue(s))
    ELSE None

\* Option::unwrap_or
UnwrapOr(opt, default) == IF opt = None THEN default ELSE CHOOSE v \in opt : TRUE

DefaultDimension == 1024

\* parse_size: with exactly two pieces around 'x', each piece is parsed and
\* defaults on its own; otherwise both dimensions are the default.
ParseSize(s) ==
    LET parts == Split(s, "x") IN
    IF Len(parts) = 2
    THEN <<UnwrapOr(ParseU32(parts[1]), DefaultDimension),
           UnwrapOr(ParseU32(parts[2]), DefaultDimension)>>
    ELSE <<DefaultDimension, DefaultDimension>>

\* generate_image calls request.parse_size().
ParseSizeCall ==
    /\ last.op # "parse_size"
    /\ parsed' = ParseSize(request_size)
    /\ last' = Call("parse_size", "", "Ok", Len(request_size))
    /\ UNCHANGED <<imageVars, textVars, adapterVars, gatewayVars, managerVars,
                   dispatchVars, request_size, callVars, taskVars>>

\* A request has been deserialized, with any size string.
ParseInit ==
    /\ InitRegistries
    /\ InitGateway
    /\ endpoints = <<>> /\ current_endpoint_index = 0 /\ streak = <<>>
    /\ health_records = EmptyMap /\ probing = {}
    /\ cycles = [done |-> 0, clean |-> FALSE]
    /\ dispatches = EmptyBag
    /\ request_size \in SizeStrings
    /\ parsed = <<0, 0>>
    /\ calls = EmptyBag /\ probe = [pos |-> 0, any_healthy |-> FALSE]
    /\ selections = <<>>
    /\ tasks = EmptyMap

ParseNext == ParseSizeCall

ParseSpec == ParseInit /\ [][ParseNext]_vars

(***************************************************************************)
(* The management handlers over the image registry                         *)
(* (src/src/api/handlers.rs), after start-up from a configuration          *)
(* (Settings::validate, BackendRegistry::initialize_from_config).          *)
(***************************************************************************)
\* Settings::validate on the backends of a configuration: every name and
\* every list of endpoints is non-empty.
Validate(configs) ==
    IF \E i \in 1..Len(configs) : configs[i].name = ""
    THEN "Config"
    ELSE IF \E i \in 1..Len(configs) : configs[i].endpoints = <<>>
    THEN "Config"
    ELSE "Ok"

\* BackendRegistry::initialize_from_config: disabled configs are skipped,
\* a config whose adapter cannot be built is skipped, the others inserted
\* in turn.
RECURSIVE InitializeFromConfig(_, _)
InitializeFromConfig(b, configs) ==
    IF configs = <<>> THEN b
    ELSE LET config == Head(configs)
             created == CreateBackend(config, TRUE)
         IN  IF ~config.enabled \/ created.err # "Ok"
             THEN InitializeFromConfig(b, Tail(configs))
             ELSE InitializeFromConfig(
                      MapInsert(b, config.name, CHOOSE a \in created.val : TRUE),
                      Tail(configs))

\* The configurations start-up is drawn from: up to NumNames backends.
StartupConfigs ==
    UNION {[1..k -> {c \in ImageConfigs : c.protocol # "grpc"}] :
            k \in 0..NumNames}

\* AddBackendRequest as the handler reads it.
AddBackendRequests ==
    [name : Names, protocol : {"http", "GRPC", "anthropic", "websocket"},
     endpoints : EndpointLists, weight : {1},
     backend_type : {"image", "Text", "video"}]

\* str::to_lowercase on the strings drawn.
ToLowercase(s) ==
    CASE s = "GRPC" -> "grpc"
      [] s = "Text" -> "text"
      [] OTHER -> s

\* Mutant of ParseProtocol: an unknown protocol is taken as grpc.
ParseProtocolUnknownIsGrpc(p) ==
    IF ToLowercase(p) \in ProtocolType THEN ToLowercase(p) ELSE "grpc"

\* The handler's parse of the protocol and backend_type strings.
ParseProtocol(p) == IF ToLowercase(p) \in ProtocolType THEN ToLowercase(p) ELSE "http"
ParseBackendType(t) == IF ToLowercase(t) \in BackendType THEN ToLowercase(t) ELSE "image"

\* The BackendConfig the handler builds from a request.
HandlerConfig(request) ==
    [name |-> request.name, backend_type |-> ParseBackendType(request.backend_type),
     protocol |-> ParseProtocol(request.protocol), endpoints |-> request.endpoints,
     weight |-> request.weight, enabled |-> TRUE]

\* handlers::add_backend. The call record keeps the protocol and backend_type
\* strings of the request next to what the registry answered.
AddBackendHandler(request, ctor_ok) ==
    LET config == HandlerConfig(request)
        r == AddBackendResult(backends, config, ctor_ok) IN
    /\ backends' = r.backends
    /\ registered' = IF r.err = "Ok" THEN registered \cup {config.name} ELSE registered
    /\ last' = Call("add_backend", config.name, r.err, RegistryLen(backends))
                @@ [protocol |-> request.protocol, backend_type |-> request.backend_type]
    /\ UNCHANGED <<textVars, adapterVars, gatewayVars, restVars>>

\* handlers::remove_backend
RemoveBackendHandler(name) == RemoveBackend(name)

\* The text backends of the start-up configuration: none, or one that
\* declares every model.
StartupTextConfigs ==
    {<<>>, <<[name |-> CHOOSE n \in Names : TRUE, backend_type |-> "text",
              protocol |-> "openai", models |-> Models, enabled |-> TRUE]>>}

\* main: the image registry initialized from a configuration that passes
\* Settings::validate, and the text registry from its text backends.
ManagementInit ==
    /\ \E configs \in StartupConfigs :
        /\ Validate(configs) = "Ok"
        /\ backends = InitializeFromConfig(EmptyMap, configs)
    /\ registered = DOMAIN backends
    /\ \E texts \in StartupTextConfigs :
        LET r == IF texts = <<>>
                 THEN [backends |-> EmptyMap, model_to_backend |-> EmptyMap]
                 ELSE TextAddBackendResult(EmptyMap, EmptyMap, texts[1], TRUE) IN
        /\ text_backends = r.backends
        /\ model_to_backend = r.model_to_backend
    /\ fresh = [n \in Names |-> {}]
    /\ removed = {}
    /\ last = Call("new", "", "Ok", 0)
    /\ InitGateway
    /\ InitRest
    /\ endpoints = <<>> /\ current_endpoint_index = 0 /\ streak = <<>>

ManagementNext ==
    \/ \E request \in AddBackendRequests : \E ctor_ok \in BOOLEAN :
          AddBackendHandler(request, ctor_ok)
    \/ \E name \in Names : RemoveBackendHandler(name)

ManagementSpec == ManagementInit /\ [][ManagementNext]_vars

(***************************************************************************)
(* One text adapter under concurrent calls: a request selects its endpoint *)
(* in one step (get_next_endpoint, under the locks) and its upstream call  *)
(* returns in a later one; health_check probes the endpoints of its        *)
(* snapshot one after the other, and other calls run in between. The call *)
(* record names the operation that stepped; what each operation returns    *)
(* is modelled by the whole-call actions of AdapterSpec.                   *)
(***************************************************************************)
MaxCalls == 2
MaxWindow == 2

\* The urls of the healthy endpoints, in the order of the list.
HealthyUrls(eps) ==
    LET healthy_endpoints == SelectSeq(eps, IsHealthy) IN
    [i \in 1..Len(healthy_endpoints) |-> healthy_endpoints[i].url]

\* The last n entries of a sequence.
LastN(s, n) == IF Len(s) <= n THEN s ELSE SubSeq(s, Len(s) - n + 1, Len(s))

\* The history of selections after the endpoints become eps2: it restarts
\* when the list of healthy endpoints changes.
SelectionsAfter(eps2) ==
    IF HealthyUrls(eps2) = HealthyUrls(endpoints) THEN selections ELSE <<>>

\* The requests drawn (text_completion marks its endpoint as
\* chat_completion does), and what the upstream does with a request or
\* probe: a 2xx answer, no answer, a 4xx answer.
ConcurrentOps == {"chat_completion"}
ConcurrentOutcomes == {"ok", "transport_error", "client_error"}

\* What the upstream does with a probe of a health_check in steps: it
\* answers 2xx, it answers 401, or it does not answer.
ProbeStepOutcomes == {"ok", "unauthorized", "transport_error"}

\* The result the call record of a marking step keeps: whether the step
\* made an endpoint healthy that was unhealthy before it.
Restored(eps2) ==
    IF \E i \in 1..Len(endpoints) : ~endpoints[i].healthy /\ eps2[i].healthy
    THEN "restored" ELSE ""

\* A request starts: get_next_endpoint advances the cursor and returns the
\* url, or the request fails at once with NoHealthyBackends.
StartCall(op) ==
    LET sel == GetNextEndpoint(endpoints, current_endpoint_index) IN
    /\ current_endpoint_index' = sel.index
    /\ IF sel.url = None
       THEN /\ calls' = calls
            /\ selections' = selections
            /\ last' = [Call(op, "", "NoHealthyBackends", Len(endpoints))
                           EXCEPT !.backend = AdapterName]
       ELSE /\ BagCardinality(calls) < MaxCalls
            /\ calls' = calls (+) SetToBag({[op |-> op, url |-> OrEmpty(sel.url)]})
            /\ selections' = LastN(Append(selections, OrEmpty(sel.url)), MaxWindow)
            /\ last' = Call("get_next_endpoint", "", "Ok", Len(endpoints))
    /\ UNCHANGED <<endpoints, streak, probe, imageVars, textVars, gatewayVars,
                   managerVars, dispatchVars, parseVars, taskVars>>

\* The upstream call of a request in flight returns and the request marks
\* its endpoint.
FinishCall(c, outcome) ==
    LET r == IF c.op = "list_models"
             THEN ListModelsResult(endpoints, c.url, outcome)
             ELSE CompletionResult(endpoints, c.url, outcome)
    IN  /\ BagIn(c, calls)
        /\ WithinBound(r.endpoints)
        /\ endpoints' = r.endpoints
        /\ streak' = [i \in 1..Len(endpoints) |->
                        IF endpoints[i].url = c.url
                        THEN StreakAfter(streak[i], c.op, outcome)
                        ELSE streak[i]]
        /\ calls' = calls (-) SetToBag({c})
        /\ selections' = SelectionsAfter(r.endpoints)
        /\ last' = Call(c.op, "", Restored(r.endpoints), Len(endpoints))
        /\ UNCHANGED <<current_endpoint_index, probe, imageVars, textVars, gatewayVars,
                       managerVars, dispatchVars, parseVars, taskVars>>

\* health_check starts: it clones the endpoints and has probed none yet.
\* An adapter without endpoints answers false at once.
StartHealthCheck ==
    /\ probe.pos = 0
    /\ probe' = [pos |-> IF Len(endpoints) = 0 THEN 0 ELSE 1, any_healthy |-> FALSE]
    /\ last' = Call("health_check", "", "", Len(endpoints))
    /\ UNCHANGED <<adapterVars, calls, selections, imageVars, textVars, gatewayVars,
                   managerVars, dispatchVars, parseVars, taskVars>>

\* The probe of the next endpoint of the snapshot returns and the endpoint
\* is marked; after the last one health_check returns any_healthy.
ProbeStep(outcome) ==
    LET url == endpoints[probe.pos].url
        passes == ProbePasses(outcome)
        eps2 == IF passes THEN MarkEndpointHealthy(endpoints, url)
                ELSE MarkEndpointUnhealthy(endpoints, url)
        any == probe.any_healthy \/ passes
        done == probe.pos = Len(endpoints)
    IN  /\ probe.pos > 0
        /\ WithinBound(eps2)
        /\ endpoints' = eps2
        /\ streak' = [streak EXCEPT ![probe.pos] = StreakAfter(@, "health_check", outcome)]
        /\ probe' = IF done THEN [pos |-> 0, any_healthy |-> FALSE]
                    ELSE [pos |-> probe.pos + 1, any_healthy |-> any]
        /\ selections' = SelectionsAfter(eps2)
        /\ last' = Call("health_check", "", Restored(eps2), Len(endpoints))
        /\ UNCHANGED <<current_endpoint_index, calls, imageVars, textVars, gatewayVars,
                       managerVars, dispatchVars, parseVars, taskVars>>

\* The requests that can be in flight.
CallRecords == [op : ConcurrentOps, url : {AllUrls[i] : i \in 1..NumEndpoints}]

ConcurrentNext ==
    \/ \E op \in ConcurrentOps : StartCall(op)
    \/ \E c \in CallRecords : \E outcome \in ConcurrentOutcomes : FinishCall(c, outcome)
    \/ StartHealthCheck
    \/ \E outcome \in ProbeStepOutcomes : ProbeStep(outcome)

ConcurrentSpec == AdapterInit /\ [][ConcurrentNext]_vars

(***************************************************************************)
(* One text adapter that keeps receiving calls: requests and health_check  *)
(* as whole steps, with one endpoint more than NumEndpoints, and weak      *)
(* fairness of the requests.                                               *)
(***************************************************************************)
\* What the upstream does with a request or a probe.
StarvationOutcomes == {"ok", "transport_error"}

\* One answer per endpoint probed.
StarvationProbeOutcomes ==
    UNION {[1..k -> StarvationOutcomes] : k \in 1..(NumEndpoints + 1)}

\* OpenAICompatibleBackend::new on a config with k endpoints of distinct urls.
StarvationInit ==
    /\ InitRegistries
    /\ InitGateway
    /\ InitRest
    /\ \E k \in 1..(NumEndpoints + 1) :
        /\ endpoints = [i \in 1..k |-> TextEndpointNew(AllUrls[i])]
        /\ streak = [i \in 1..k |-> 0]
    /\ current_endpoint_index = 0

\* A chat completion request arrives and is answered.
StarvationCall == \E outcome \in StarvationOutcomes : ChatCompletion(outcome)

\* A health_check runs.
StarvationHealthCheck == \E outcomes \in StarvationProbeOutcomes : HealthCheck(outcomes)

StarvationNext ==
    \/ StarvationCall
    \/ StarvationHealthCheck

\* Calls keep arriving: a request that can be made is eventually made.
StarvationSpec ==
    StarvationInit /\ [][StarvationNext]_vars /\ WF_vars(StarvationCall)

(***************************************************************************)
(* The registry operations in steps, checked under RegistryStepSpec: up to *)
(* MaxTasks tasks each run one operation of a registry, one map operation  *)
(* or lock at a time, interleaved with the other tasks. A DashMap call     *)
(* takes and releases its shard lock within one step; the guard an         *)
(* iterator holds on the entry it stands at lasts until the iterator moves *)
(* on. locks is what a task holds between steps: <<"backends", name>> is   *)
(* the guard on the text registry's entry name, <<"endpoints", name>> the  *)
(* endpoints lock of the adapter of that name.                             *)
(***************************************************************************)
MaxTasks == 2
TaskIds == 1..MaxTasks

Task(op, pc, config, todo, seen, locks, result) ==
    [op |-> op, pc |-> pc, config |-> config, todo |-> todo, seen |-> seen,
     locks |-> locks, result |-> result]

NoConfig == [name |-> ""]

\* Another task holds the lock: a map write to that entry, or a write lock,
\* has to wait for it.
HeldByOther(t, lock) == \E u \in DOMAIN tasks : u # t /\ lock \in tasks[u].locks

\* The text add_backend calls drawn: every enabled config of type text, and
\* per name one whose HTTP client cannot be built.
StepTextAddInputs ==
    {in \in TextAddInputs : in[1].enabled /\ in[1].backend_type = "text"
                            /\ in[1].protocol = "openai"}

\* The image add_backend calls drawn.
StepImageAddInputs ==
    {in \in ImageAddInputs : in[1].enabled /\ in[1].weight = 1
                             /\ in[1].endpoints # <<>>}

\* Both registries as start-up leaves them: each empty or holding one
\* backend.
StepInit ==
    /\ \E configs \in {<<>>, <<[name |-> CHOOSE n \in Names : TRUE,
                               backend_type |-> "image", protocol |-> "http",
                               endpoints |-> <<AllUrls[1]>>, weight |-> 1,
                               enabled |-> TRUE]>>} :
          backends = InitializeFromConfig(EmptyMap, configs)
    /\ registered = DOMAIN backends
    /\ \E texts \in StartupTextConfigs :
        LET r == IF texts = <<>>
                 THEN [backends |-> EmptyMap, model_to_backend |-> EmptyMap]
                 ELSE TextAddBackendResult(EmptyMap, EmptyMap, texts[1], TRUE) IN
        /\ text_backends = r.backends
        /\ model_to_backend = r.model_to_backend
    /\ fresh = [n \in Names |-> {}]
    /\ removed = {}
    /\ last = Call("new", "", "Ok", 0)
    /\ InitGateway
    /\ InitRest
    /\ endpoints = <<>> /\ current_endpoint_index = 0 /\ streak = <<>>

StepFrame == UNCHANGED <<registered, fresh, removed, adapterVars, gatewayVars,
                         managerVars, dispatchVars, parseVars, callVars>>

\* TextBackendRegistry::add_backend up to the loop over config.models: the
\* type check and create_text_backend.
TextAddStart(t, config, client_ok) ==
    /\ t \notin DOMAIN tasks
    /\ LET created == IF config.backend_type # "text"
                      THEN [err |-> "Internal", val |-> None]
                      ELSE CreateTextBackend(config, client_ok) IN
       IF created.err # "Ok"
       THEN /\ tasks' = MapInsert(tasks, t,
                            Task("text_add", "done", config, {}, {}, {}, created.err))
            /\ last' = Call("text_add", config.name, created.err,
                            RegistryLen(text_backends))
       ELSE /\ tasks' = MapInsert(tasks, t,
                            Task("text_add", "insert_models", config, config.models,
                                 {}, {}, ""))
            /\ UNCHANGED last
    /\ UNCHANGED <<backends, text_backends, model_to_backend>>
    /\ StepFrame

\* One turn of the loop: model_to_backend.insert(model, name).
TextAddInsertModel(t) ==
    /\ t \in DOMAIN tasks
    /\ tasks[t].op = "text_add" /\ tasks[t].pc = "insert_models"
    /\ \E model \in tasks[t].todo :
        /\ model_to_backend' = MapInsert(model_to_backend, model, tasks[t].config.name)
        /\ tasks' = [tasks EXCEPT ![t].todo = @ \ {model}]
    /\ UNCHANGED <<backends, text_backends, last>>
    /\ StepFrame

\* After the loop: backends.insert(name, backend); it waits while another
\* task's iterator stands at the entry.
TextAddInsertBackend(t) ==
    /\ t \in DOMAIN tasks
    /\ tasks[t].op = "text_add" /\ tasks[t].pc = "insert_models"
    /\ tasks[t].todo = {}
    /\ ~HeldByOther(t, <<"backends", tasks[t].config.name>>)
    /\ text_backends' = MapInsert(text_backends, tasks[t].config.name,
                                  TextAdapter(tasks[t].config))
    /\ tasks' = [tasks EXCEPT ![t].pc = "done", ![t].result = "Ok"]
    /\ last' = Call("text_add", tasks[t].config.name, "Ok", RegistryLen(text_backends))
    /\ UNCHANGED <<backends, model_to_backend>>
    /\ StepFrame

\* TextBackendRegistry::remove_backend: backends.remove(name); it waits
\* while another task's iterator stands at the entry.
TextRemoveStart(t, name) ==
    /\ t \notin DOMAIN tasks
    /\ ~HeldByOther(t, <<"backends", name>>)
    /\ IF name \in DOMAIN text_backends
       THEN /\ text_backends' = MapRemove(text_backends, name)
            /\ tasks' = MapInsert(tasks, t,
                            Task("text_remove", "retain", [name |-> name], {}, {}, {}, ""))
            /\ UNCHANGED last
       ELSE /\ UNCHANGED text_backends
            /\ tasks' = MapInsert(tasks, t,
                            Task("text_remove", "done", [name |-> name], {}, {}, {},
                                 "BackendNotFound"))
            /\ last' = Call("text_remove", name, "BackendNotFound",
                            RegistryLen(text_backends))
    /\ UNCHANGED <<backends, model_to_backend>>
    /\ StepFrame

\* remove_backend, second statement: model_to_backend.retain(|_, v| v != name).
TextRemoveRetain(t) ==
    /\ t \in DOMAIN tasks
    /\ tasks[t].op = "text_remove" /\ tasks[t].pc = "retain"
    /\ model_to_backend' = RetainNot(model_to_backend, tasks[t].config.name)
    /\ tasks' = [tasks EXCEPT ![t].pc = "done", ![t].result = "Ok"]
    /\ last' = Call("text_remove", tasks[t].config.name, "Ok", RegistryLen(text_backends))
    /\ UNCHANGED <<backends, text_backends>>
    /\ StepFrame

\* self.backends.iter() of TextBackendRegistry::list_backends (op text_list)
\* and of health_check_all: todo is the entries the map holds when the
\* iterator is made.
TextIterStart(t, op) ==
    /\ t \notin DOMAIN tasks
    /\ tasks' = MapInsert(tasks, t,
                    Task(op, "iter", NoConfig, DOMAIN text_backends, {}, {}, ""))
    /\ UNCHANGED <<backends, text_backends, model_to_backend, last>>
    /\ StepFrame

\* The iterator yields its next entry and holds the guard on it: an entry
\* it has not yielded yet. The body of the closure or loop starts:
\* list_backends is about to call status(), health_check_all has called
\* health_check() and waits for its probes.
TextIterEntry(t) ==
    /\ t \in DOMAIN tasks
    /\ tasks[t].op \in {"text_list", "health_check_all"} /\ tasks[t].pc = "iter"
    /\ \E name \in DOMAIN text_backends \ tasks[t].seen :
        tasks' = [tasks EXCEPT ![t].seen = @ \cup {name},
                               ![t].config = [name |-> name],
                               ![t].locks = {<<"backends", name>>},
                               ![t].pc = IF tasks[t].op = "text_list"
                                         THEN "status" ELSE "probe"]
    /\ UNCHANGED <<backends, text_backends, model_to_backend, last>>
    /\ StepFrame

\* list_backends: entry.value().status() takes endpoints.read().
TextListStatus(t) ==
    /\ t \in DOMAIN tasks
    /\ tasks[t].op = "text_list" /\ tasks[t].pc = "status"
    /\ tasks' = [tasks EXCEPT ![t].locks = @ \cup {<<"endpoints", tasks[t].config.name>>},
                              ![t].pc = "status_read"]
    /\ UNCHANGED <<backends, text_backends, model_to_backend, last>>
    /\ StepFrame

\* list_backends: status() returns, its guard on the endpoints is dropped,
\* and the iterator leaves the entry.
TextListStatusReturn(t) ==
    /\ t \in DOMAIN tasks
    /\ tasks[t].op = "text_list" /\ tasks[t].pc = "status_read"
    /\ tasks' = [tasks EXCEPT ![t].locks = {}, ![t].pc = "iter"]
    /\ UNCHANGED <<backends, text_backends, model_to_backend, last>>
    /\ StepFrame

\* health_check_all: the upstream has answered the probes of the entry's
\* health_check().await; the iterator leaves the entry.
TextSweepProbed(t) ==
    /\ t \in DOMAIN tasks
    /\ tasks[t].op = "health_check_all" /\ tasks[t].pc = "probe"
    /\ tasks' = [tasks EXCEPT ![t].locks = {}, ![t].pc = "iter"]
    /\ UNCHANGED <<backends, text_backends, model_to_backend, last>>
    /\ StepFrame

\* The iterator is exhausted: every entry it was made over is yielded or
\* gone.
TextIterEnd(t) ==
    /\ t \in DOMAIN tasks
    /\ tasks[t].op \in {"text_list", "health_check_all"} /\ tasks[t].pc = "iter"
    /\ (tasks[t].todo \cap DOMAIN text_backends) \subseteq tasks[t].seen
    /\ tasks' = [tasks EXCEPT ![t].pc = "done", ![t].result = "Ok"]
    /\ last' = Call(tasks[t].op, "", "Ok", Cardinality(tasks[t].seen))
    /\ UNCHANGED <<backends, text_backends, model_to_backend>>
    /\ StepFrame

\* BackendRegistry::add_backend, first statement: the contains_key check.
ImageAddCheck(t, config) ==
    /\ t \notin DOMAIN tasks
    /\ IF config.name \in DOMAIN backends
       THEN /\ tasks' = MapInsert(tasks, t,
                            Task("image_add", "done", config, {}, {}, {}, "InvalidRequest"))
            /\ last' = Call("image_add", config.name, "InvalidRequest",
                            RegistryLen(backends))
       ELSE /\ tasks' = MapInsert(tasks, t,
                            Task("image_add", "create", config, {}, {}, {}, ""))
            /\ UNCHANGED last
    /\ UNCHANGED <<backends, text_backends, model_to_backend>>
    /\ StepFrame

\* add_backend: self.create_backend(&config).await has returned.
ImageAddCreate(t, ctor_ok) ==
    /\ t \in DOMAIN tasks
    /\ tasks[t].op = "image_add" /\ tasks[t].pc = "create"
    /\ LET created == CreateBackend(tasks[t].config, ctor_ok) IN
       IF created.err # "Ok"
       THEN /\ tasks' = [tasks EXCEPT ![t].pc = "done", ![t].result = created.err]
            /\ last' = Call("image_add", tasks[t].config.name, created.err,
                            RegistryLen(backends))
       ELSE /\ tasks' = [tasks EXCEPT ![t].pc = "insert"]
            /\ UNCHANGED last
    /\ UNCHANGED <<backends, text_backends, model_to_backend>>
    /\ StepFrame

\* add_backend: self.backends.insert(name, backend), then Ok.
ImageAddInsert(t) ==
    /\ t \in DOMAIN tasks
    /\ tasks[t].op = "image_add" /\ tasks[t].pc = "insert"
    /\ backends' = MapInsert(backends, tasks[t].config.name, ImageAdapter(tasks[t].config))
    /\ tasks' = [tasks EXCEPT ![t].pc = "done", ![t].result = "Ok"]
    /\ last' = Call("image_add", tasks[t].config.name, "Ok", RegistryLen(backends))
    /\ UNCHANGED <<text_backends, model_to_backend>>
    /\ StepFrame

\* BackendRegistry::list_backends: the adapters are collected first; no
\* guard outlives the statement.
ImageListCollect(t) ==
    /\ t \notin DOMAIN tasks
    /\ tasks' = MapInsert(tasks, t,
                    Task("image_list", "probe", NoConfig, DOMAIN backends, {}, {}, ""))
    /\ UNCHANGED <<backends, text_backends, model_to_backend, last>>
    /\ StepFrame

\* list_backends: backend.health_check().await of the next collected
\* adapter has returned; after the last one the listing is returned.
ImageListProbed(t) ==
    /\ t \in DOMAIN tasks
    /\ tasks[t].op = "image_list" /\ tasks[t].pc = "probe"
    /\ IF tasks[t].todo = {}
       THEN /\ tasks' = [tasks EXCEPT ![t].pc = "done", ![t].result = "Ok"]
            /\ last' = Call("image_list", "", "Ok", Cardinality(tasks[t].seen))
       ELSE /\ \E name \in tasks[t].todo :
                 tasks' = [tasks EXCEPT ![t].todo = @ \ {name},
                                        ![t].seen = @ \cup {name}]
            /\ UNCHANGED last
    /\ UNCHANGED <<backends, text_backends, model_to_backend>>
    /\ StepFrame

RegistryStepNext ==
    \/ \E t \in TaskIds : \E in \in StepTextAddInputs : TextAddStart(t, in[1], in[2])
    \/ \E t \in TaskIds : TextAddInsertModel(t)
    \/ \E t \in TaskIds : TextAddInsertBackend(t)
    \/ \E t \in TaskIds : \E name \in Names : TextRemoveStart(t, name)
    \/ \E t \in TaskIds : TextRemoveRetain(t)
    \/ \E t \in TaskIds : \E op \in {"text_list", "health_check_all"} : TextIterStart(t, op)
    \/ \E t \in TaskIds : TextIterEntry(t)
    \/ \E t \in TaskIds : TextListStatus(t)
    \/ \E t \in TaskIds : TextListStatusReturn(t)
    \/ \E t \in TaskIds : TextSweepProbed(t)
    \/ \E t \in TaskIds : TextIterEnd(t)
    \/ \E t \in TaskIds : \E in \in StepImageAddInputs : ImageAddCheck(t, in[1])
    \/ \E t \in TaskIds : \E ctor_ok \in BOOLEAN : ImageAddCreate(t, ctor_ok)
    \/ \E t \in TaskIds : ImageAddInsert(t)
    \/ \E t \in TaskIds : ImageListCollect(t)
    \/ \E t \in TaskIds : ImageListProbed(t)

RegistryStepSpec == StepInit /\ [][RegistryStepNext]_vars

(***************************************************************************)
(* The locks of one text adapter, checked under LockSpec: up to MaxTasks   *)
(* tasks each run chat_completion or health_check on the adapter, one lock *)
(* operation or upstream answer at a time. endpoints and                   *)
(* current_endpoint_index are parking_lot RwLocks: read guards are shared, *)
(* a write guard is exclusive. locks is what a task holds between steps:   *)
(* "endpoints_read", "endpoints_write", "cursor". pc io: the task waits    *)
(* for the upstream to answer its request or probe.                        *)
(***************************************************************************)
AdapterTask(op, pc, url, todo, outcome, locks) ==
    [op |-> op, pc |-> pc, url |-> url, todo |-> todo, outcome |-> outcome,
     locks |-> locks]

\* A task that has returned.
Returned(op) == AdapterTask(op, "done", "", <<>>, "", {})

LockFrame == UNCHANGED <<streak, imageVars, textVars, gatewayVars, managerVars,
                         dispatchVars, parseVars, callVars, last>>

\* get_next_endpoint, first statement: self.endpoints.read(); it waits
\* while another task holds the write guard.
AcquireEndpointsRead(t) ==
    /\ t \notin DOMAIN tasks
    /\ ~HeldByOther(t, "endpoints_write")
    /\ tasks' = MapInsert(tasks, t,
                    AdapterTask("chat_completion", "select", "", <<>>, "",
                                {"endpoints_read"}))
    /\ UNCHANGED <<endpoints, current_endpoint_index>>
    /\ LockFrame

\* get_next_endpoint: with no healthy endpoint it returns None, the guard
\* is dropped and chat_completion returns NoHealthyBackends; otherwise
\* self.current_endpoint_index.write(), which waits while another task
\* holds the cursor.
AcquireCursor(t) ==
    /\ t \in DOMAIN tasks
    /\ tasks[t].pc = "select"
    /\ IF Len(SelectSeq(endpoints, IsHealthy)) = 0
       THEN tasks' = [tasks EXCEPT ![t] = Returned("chat_completion")]
       ELSE /\ ~HeldByOther(t, "cursor")
            /\ tasks' = [tasks EXCEPT ![t].locks = @ \cup {"cursor"},
                                      ![t].pc = "advance"]
    /\ UNCHANGED <<endpoints, current_endpoint_index>>
    /\ LockFrame

\* Mutant of SelectReturn: the guards outlive get_next_endpoint.
SelectReturnKeepsGuards(t) ==
    LET sel == GetNextEndpoint(endpoints, current_endpoint_index) IN
    /\ t \in DOMAIN tasks
    /\ tasks[t].pc = "advance"
    /\ current_endpoint_index' = sel.index
    /\ tasks' = [tasks EXCEPT ![t].url = OrEmpty(sel.url), ![t].pc = "io"]
    /\ UNCHANGED endpoints
    /\ LockFrame

\* get_next_endpoint: the cursor advances, the url is returned and both
\* guards are dropped; chat_completion sends the request.
SelectReturn(t) ==
    LET sel == GetNextEndpoint(endpoints, current_endpoint_index) IN
    /\ t \in DOMAIN tasks
    /\ tasks[t].pc = "advance"
    /\ current_endpoint_index' = sel.index
    /\ tasks' = [tasks EXCEPT ![t].url = OrEmpty(sel.url), ![t].locks = {},
                              ![t].pc = "io"]
    /\ UNCHANGED endpoints
    /\ LockFrame

\* health_check, first statement: self.endpoints.read().clone(); the guard
\* is a temporary of the statement. It waits while another task holds the
\* write guard. The probe of the first endpoint is sent.
HealthCheckClone(t) ==
    /\ t \notin DOMAIN tasks
    /\ ~HeldByOther(t, "endpoints_write")
    /\ tasks' = MapInsert(tasks, t,
                    IF Len(endpoints) = 0 THEN Returned("health_check")
                    ELSE AdapterTask("health_check", "io", endpoints[1].url,
                                     [i \in 1..(Len(endpoints) - 1) |-> endpoints[i + 1].url],
                                     "", {}))
    /\ UNCHANGED <<endpoints, current_endpoint_index>>
    /\ LockFrame

\* The task after its endpoint is marked, or after an answer that marks
\* nothing: health_check sends the probe of the next endpoint of its
\* snapshot; after the last one, and for a request, the call returns.
AfterMark(task) ==
    IF task.op = "health_check" /\ Len(task.todo) > 0
    THEN AdapterTask("health_check", "io", Head(task.todo), Tail(task.todo), "", {})
    ELSE Returned(task.op)

\* The upstream answers the request or probe of task t (or does not, and
\* the client gives up). A request answered 4xx marks nothing.
UpstreamReturn(t, outcome) ==
    /\ t \in DOMAIN tasks
    /\ tasks[t].pc = "io"
    /\ tasks' = [tasks EXCEPT ![t] =
                    IF IsSuccess(@.op, outcome) \/ IsFailure(@.op, outcome)
                    THEN [@ EXCEPT !.outcome = outcome, !.pc = "mark"]
                    ELSE AfterMark(@)]
    /\ UNCHANGED <<endpoints, current_endpoint_index>>
    /\ LockFrame

\* mark_endpoint_healthy / mark_endpoint_unhealthy, first statement:
\* self.endpoints.write(); it waits while another task holds a guard on
\* the endpoints.
AcquireEndpointsWrite(t) ==
    /\ t \in DOMAIN tasks
    /\ tasks[t].pc = "mark"
    /\ ~HeldByOther(t, "endpoints_read")
    /\ ~HeldByOther(t, "endpoints_write")
    /\ tasks' = [tasks EXCEPT ![t].locks = @ \cup {"endpoints_write"},
                              ![t].pc = "marking"]
    /\ UNCHANGED <<endpoints, current_endpoint_index>>
    /\ LockFrame

\* mark_endpoint_healthy / mark_endpoint_unhealthy: the endpoint of the url
\* is marked and the guard is dropped.
MarkReturn(t) ==
    /\ t \in DOMAIN tasks
    /\ tasks[t].pc = "marking"
    /\ endpoints' = IF IsSuccess(tasks[t].op, tasks[t].outcome)
                    THEN MarkEndpointHealthy(endpoints, tasks[t].url)
                    ELSE MarkEndpointUnhealthy(endpoints, tasks[t].url)
    /\ tasks' = [tasks EXCEPT ![t] = AfterMark(@)]
    /\ UNCHANGED current_endpoint_index
    /\ LockFrame

LockNext ==
    \/ \E t \in TaskIds : AcquireEndpointsRead(t)
    \/ \E t \in TaskIds : AcquireCursor(t)
    \/ \E t \in TaskIds : SelectReturn(t)
    \/ \E t \in TaskIds : HealthCheckClone(t)
    \/ \E t \in TaskIds : \E outcome \in ConcurrentOutcomes : UpstreamReturn(t, outcome)
    \/ \E t \in TaskIds : AcquireEndpointsWrite(t)
    \/ \E t \in TaskIds : MarkReturn(t)

LockSpec == AdapterInit /\ [][LockNext]_vars

(***************************************************************************)
(* Claims about the image registry, checked under Spec.                    *)
(***************************************************************************)
C1_Names ==
    /\ \A n \in Names : Contains(backends, n) <=> n \in registered
    /\ \A n \in Names : (Get(backends, n) # None) <=> n \in registered
    /\ \A n \in DOMAIN backends : Get(backends, n) = Some(backends[n])
    /\ GetAll(backends) = {backends[n] : n \in registered}
    /\ Cardinality(GetAll(backends)) = Cardinality(registered)
    /\ RegistryLen(backends) = Cardinality(registered)

\* add(c) succeeded in the step before, remove(c.name) succeeds in this one.
C1_AddThenRemove ==
    /\ last.op = "add_backend" /\ last.result = "Ok"
    /\ last'.op = "remove_backend" /\ last'.result = "Ok"
    /\ last'.name = last.name

\* C1: after any sequence of add_backend and remove_backend calls the names
\* the image registry shows through get, contains, get_all and len are
\* exactly the names added with Ok and not removed with Ok since; and a
\* successful add(c) followed by a successful remove(c.name) leaves the
\* registry with the size it had before the add.
C1_RegisteredNamesExact ==
    /\ []C1_Names
    /\ [][C1_AddThenRemove => RegistryLen(backends') = last.size]_vars

\* C1 witness: a and b were added, a was removed: b alone is registered.
C1_Witness ==
    /\ last.op = "remove_backend" /\ last.result = "Ok"
    /\ last.size = 2
    /\ registered # {} /\ last.name \notin registered
    /\ Get(backends, last.name) = None

\* C2: add_backend with a name that is already registered fails with the
\* already-exists error (InvalidRequest) and leaves the image registry as it was: the
\* adapter registered under the name is kept, the size does not change.
C2_DuplicateAddRejected ==
    [][(last'.op = "add_backend" /\ last'.name \in DOMAIN backends)
        => /\ last'.result = "InvalidRequest"
           /\ backends' = backends
           /\ RegistryLen(backends') = RegistryLen(backends)]_vars

\* C2 witness: an add_backend was refused for a name that is registered.
C2_Witness ==
    /\ last.op = "add_backend" /\ last.result = "InvalidRequest"
    /\ last.name \in DOMAIN backends

(***************************************************************************)
(* Claims about the text registry, checked under TextSpec.                 *)
(***************************************************************************)
\* What get_backend_for_model(model, preferred) may return in this state.
Lookup(model, preferred) ==
    GetBackendForModel(text_backends, model_to_backend, model, preferred)

\* The same in the state a step leads to.
LookupNext(model, preferred) ==
    GetBackendForModel(text_backends', model_to_backend', model, preferred)

\* C3: on the text registry, add_backend with a name that is already
\* registered fails with BackendAlreadyExists and leaves the registered
\* adapter and the model-to-backend mapping unchanged.
C3_TextDuplicateAddRejected ==
    [][(last'.op = "text_add_backend" /\ last'.name \in DOMAIN text_backends)
        => /\ last'.result = "BackendAlreadyExists"
           /\ text_backends' = text_backends
           /\ model_to_backend' = model_to_backend]_vars

\* C5: while no later add or remove touches n, m1 or m2, both models of an
\* enabled backend n added with models [m1, m2] resolve, without a preferred
\* backend, to the adapter registered under n by that add.
C5_DeclaredModelsResolve ==
    \A n \in Names : \A m \in fresh[n] :
        /\ n \in DOMAIN text_backends
        /\ text_backends[n].name = n
        /\ text_backends[n].models = fresh[n]
        /\ Lookup(m, None) = {Ok(text_backends[n])}

\* C5 witness: n was added with two models after another enabled backend
\* that declares one of them, and nothing has touched n or its models since.
C5_Witness ==
    \E n \in Names : \E n2 \in (DOMAIN text_backends) \ {n} :
        /\ Cardinality(fresh[n]) = 2
        /\ text_backends[n2].enabled
        /\ text_backends[n2].models \cap fresh[n] # {}

\* C6: once remove_backend(n) has returned Ok, and until n is added again,
\* no entry of the model-to-backend mapping has n as its value.
C6_NoMappingToRemoved ==
    \A n \in removed : \A m \in DOMAIN model_to_backend : model_to_backend[m] # n

\* C6 witness: a backend was just removed while another backend keeps its
\* model mappings.
C6_Witness ==
    /\ last.op = "text_remove_backend" /\ last.result = "Ok"
    /\ last.name \in removed
    /\ last.size = 2
    /\ DOMAIN model_to_backend # {}

\* This step is a successful add of a backend that declares m, while another
\* registered backend declares m too.
SecondAddOf(m) ==
    /\ last'.op = "text_add_backend" /\ last'.result = "Ok"
    /\ m \in text_backends'[last'.name].models
    /\ \E n2 \in (DOMAIN text_backends) \ {last'.name} : m \in text_backends[n2].models

\* C7 as claimed: the backend added second owns the mapping of the shared
\* model and is the one get_backend_for_model(model, None) returns.
C7_SecondAddIsReturned ==
    [][\A m \in Models :
        SecondAddOf(m)
        => /\ model_to_backend'[m] = last'.name
           /\ LookupNext(m, None) = {Ok(text_backends'[last'.name])}]_vars

\* C7 as amended: a model is bound to at most one backend at any instant;
\* the backend added second owns the mapping of the shared model, and is the
\* one get_backend_for_model(model, None) returns if it is enabled.
C7_SecondAddOwnsMapping ==
    /\ [](\A m \in DOMAIN model_to_backend :
            Cardinality({n \in Names : model_to_backend[m] = n}) = 1)
    /\ [][\A m \in Models :
            SecondAddOf(m)
            => /\ model_to_backend'[m] = last'.name
               /\ text_backends'[last'.name].enabled
                  => LookupNext(m, None) = {Ok(text_backends'[last'.name])}]_vars

\* C7 witness: two enabled backends declare the same model; the one whose
\* add came last owns the mapping.
C7_Witness ==
    /\ last.op = "text_add_backend" /\ last.result = "Ok"
    /\ \E m \in Models : \E n2 \in (DOMAIN text_backends) \ {last.name} :
        /\ m \in text_backends[last.name].models
        /\ m \in text_backends[n2].models
        /\ text_backends[n2].enabled /\ text_backends[last.name].enabled
        /\ model_to_backend[m] = last.name

Preferences == {None} \cup {Some(n) : n \in Names}

\* The rules of get_backend_for_model, as the claim states them.
Rule1(p) == \E n \in p : n \in DOMAIN text_backends
Rule2(m) ==
    /\ m \in DOMAIN model_to_backend
    /\ model_to_backend[m] \in DOMAIN text_backends
    /\ text_backends[model_to_backend[m]].enabled
Rule3(m) == \E n \in DOMAIN text_backends :
                text_backends[n].enabled /\ m \in text_backends[n].models
Rule4 == \E n \in DOMAIN text_backends : text_backends[n].enabled

\* C8: get_backend_for_model returns the result of the first applicable
\* rule: (1) the preferred backend if registered, whatever its enabled flag;
\* (2) the backend the mapping binds the model to, if enabled; (3) an enabled
\* adapter that declares the model; (4) any enabled adapter; (5) the error
\* NoHealthyBackends. A preferred name that is not registered falls through.
C8_SelectionRuleOrder ==
    \A m \in QueryModels : \A p \in Preferences :
        LET got == Lookup(m, p) IN
        /\ got # {}
        /\ IF Rule1(p)
           THEN got = {Ok(text_backends[CHOOSE n \in p : TRUE])}
           ELSE IF Rule2(m)
           THEN got = {Ok(text_backends[model_to_backend[m]])}
           ELSE IF Rule3(m)
           THEN \A r \in got : /\ r.err = "Ok"
                               /\ \A a \in r.val : /\ a.enabled /\ m \in a.models
                                                   /\ a \in GetAll(text_backends)
           ELSE IF Rule4
           THEN \A r \in got : /\ r.err = "Ok"
                               /\ \A a \in r.val : a.enabled /\ a \in GetAll(text_backends)
           ELSE got = {Err("NoHealthyBackends")}

\* C8 witness: one state in which rules 1 to 4 each decide some call: a
\* disabled preferred backend b is returned (rule 1); m2 resolves through
\* the mapping (rule 2); m1 is bound to the disabled b and resolves by the
\* scan (rule 3); the undeclared model resolves to the enabled adapter
\* (rule 4).
C8_Witness ==
    \E a, b \in DOMAIN text_backends : \E m1, m2 \in Models :
        /\ a # b /\ m1 # m2
        /\ text_backends[a].enabled /\ ~text_backends[b].enabled
        /\ Lookup(m1, Some(b)) = {Ok(text_backends[b])}
        /\ Rule2(m2) /\ model_to_backend[m2] = a
        /\ m1 \in DOMAIN model_to_backend /\ model_to_backend[m1] = b
        /\ m1 \in text_backends[a].models
        /\ Lookup(m1, None) = {Ok(text_backends[a])}
        /\ ~Rule3(UnknownModel) /\ Lookup(UnknownModel, None) = {Ok(text_backends[a])}

\* The scenario of C9: gpt-local, declaring gpt-4 and gpt-3.5-turbo, is the
\* only registered text backend.
OnlyGptLocal ==
    /\ DOMAIN text_backends = {"gpt-local"}
    /\ text_backends["gpt-local"].models = {"gpt-4", "gpt-3.5-turbo"}

\* C9 as claimed: the selection for model claude-3 without a backend hint
\* fails with NoHealthyBackends.
C9_UndeclaredModelFails ==
    OnlyGptLocal => Lookup("claude-3", None) = {Err("NoHealthyBackends")}

\* C9 as amended: the selection for claude-3 returns gpt-local when gpt-local
\* is enabled, and fails with NoHealthyBackends only when it is disabled.
C9_UndeclaredModelFallsBack ==
    OnlyGptLocal
    => Lookup("claude-3", None) =
           IF text_backends["gpt-local"].enabled
           THEN {Ok(text_backends["gpt-local"])}
           ELSE {Err("NoHealthyBackends")}

\* C9 witness: the scenario with gpt-local enabled.
C9_Witness == OnlyGptLocal /\ text_backends["gpt-local"].enabled

(***************************************************************************)
(* Claims about both registries, checked under RegistriesSpec.             *)
(***************************************************************************)
\* C4: remove_backend(name) for a name that is not registered fails with
\* BackendNotFound and changes nothing: every other backend stays
\* registered and, in the text registry, no mapping entry is removed.
C4_RemoveAbsentChangesNothing ==
    [][/\ (last'.op = "remove_backend" /\ last'.name \notin DOMAIN backends)
          => /\ last'.result = "BackendNotFound"
             /\ backends' = backends
       /\ (last'.op = "text_remove_backend" /\ last'.name \notin DOMAIN text_backends)
          => /\ last'.result = "BackendNotFound"
             /\ text_backends' = text_backends
             /\ model_to_backend' = model_to_backend]_vars

\* C4 witness: a remove_backend was refused on the text registry while both
\* registries hold another backend and the mapping has entries.
C4_Witness ==
    /\ last.op = "text_remove_backend" /\ last.result = "BackendNotFound"
    /\ last.name \notin DOMAIN text_backends
    /\ DOMAIN text_backends # {} /\ DOMAIN backends # {}
    /\ DOMAIN model_to_backend # {}

(***************************************************************************)
(* Claims about one adapter's endpoints, checked under AdapterSpec.        *)
(***************************************************************************)
\* C10: for every endpoint: after 3 or more consecutive failures with no
\* success in between it is unhealthy; after fewer than 3 consecutive
\* failures since its last success (or since it was created) it is healthy;
\* after a success it is healthy and its consecutive_failures counter is 0.
C10_FailureThreshold ==
    \A i \in 1..Len(endpoints) :
        /\ streak[i] >= 3 => ~endpoints[i].healthy
        /\ streak[i] < 3 => endpoints[i].healthy
        /\ streak[i] = 0 => endpoints[i].healthy /\ endpoints[i].consecutive_failures = 0

\* C10 witness: one endpoint went unhealthy on its third failure in a row
\* while another is still healthy two failures after its last success.
C10_Witness ==
    \E i, j \in 1..Len(endpoints) :
        /\ streak[i] = 3 /\ ~endpoints[i].healthy
        /\ streak[j] = 2 /\ endpoints[j].healthy
        /\ endpoints[j].last_check = "Some"

\* The step is a chat_completion, text_completion or list_models call.
RequestStep == last'.op \in {"chat_completion", "text_completion", "list_models"}

\* The endpoints flagged healthy, as indices.
HealthyIndices == {i \in 1..Len(endpoints) : endpoints[i].healthy}

\* C11: status().healthy is true exactly when at least one endpoint is
\* flagged healthy: false when all are unhealthy, and false for an adapter
\* with no endpoints.
C11_StatusHealthyIffAnyEndpoint ==
    /\ Status(endpoints).healthy <=> HealthyIndices # {}
    /\ HealthyIndices = {} => ~Status(endpoints).healthy
    /\ Len(endpoints) = 0 => ~Status(endpoints).healthy

\* C11 witness: one endpoint was taken out after three failures, another is
\* healthy, and status() reports the adapter healthy.
C11_Witness ==
    /\ Status(endpoints).healthy
    /\ \E i, j \in 1..Len(endpoints) :
        /\ ~endpoints[i].healthy /\ streak[i] >= 3
        /\ endpoints[j].healthy

\* C12: for a backend with two endpoints A and B, while A is unhealthy after
\* three consecutive failures and B is healthy, every request is dispatched
\* to B, and status() reports the backend healthy.
C12_UnhealthyEndpointSkipped ==
    /\ [](\A a, b \in 1..Len(endpoints) :
            (Len(endpoints) = 2 /\ a # b /\ streak[a] >= 3 /\ endpoints[b].healthy)
            => Status(endpoints).healthy)
    /\ [][\A a, b \in 1..Len(endpoints) :
            (/\ Len(endpoints) = 2 /\ a # b
             /\ streak[a] >= 3 /\ endpoints[b].healthy
             /\ RequestStep)
            => last'.name = endpoints[b].url]_vars

\* C12 witness: A took its third transport failure in a row, and the request
\* after it went to B.
C12_Witness ==
    /\ Len(endpoints) = 2
    /\ last.op = "chat_completion" /\ last.name = endpoints[2].url
    /\ streak[1] = 3 /\ ~endpoints[1].healthy
    /\ endpoints[1].consecutive_failures = 3
    /\ endpoints[2].healthy

C14_ListModelsNeverFailsOnAnswer ==
    [][(last'.op = "list_models" /\ last'.name # "" /\ last'.outcome # "transport_error")
        => IF last'.outcome = "ok"
           THEN last'.result = "Ok"
           ELSE last'.result = "OkConfigured"]_vars

(***************************************************************************)
(* Claims about the load balancer, checked under BalancerSpec and          *)
(* RoundRobinSpec.                                                         *)
(***************************************************************************)
\* The step is a select_backend call.
SelectStep == last'.op = "select_backend"

\* C15: select_backend(Some(name)) returns the adapter registered under
\* that name, whatever the strategy and the health of the backend, and does
\* not advance the round-robin counter; it fails with BackendNotFound when
\* no backend of that name is registered.
C15_NamedBackendReturnedDirectly ==
    [][(SelectStep /\ last'.backend # "")
        => /\ counter' = counter
           /\ IF last'.backend \in DOMAIN backends
              THEN /\ last'.result = "Ok"
                   /\ last'.name = last'.backend
                   /\ last'.name = backends[last'.backend].name
              ELSE last'.result = "BackendNotFound" /\ last'.name = ""]_vars

\* C15 witness: a backend outside the healthy set was returned by name under
\* the random strategy, after the counter had advanced.
C15_Witness ==
    /\ last.op = "select_backend" /\ last.result = "Ok"
    /\ last.backend # "" /\ last.name = last.backend
    /\ last.backend \notin HealthyNames(backends, up)
    /\ HealthyNames(backends, up) # {}
    /\ strategy = "Random" /\ counter > 0

\* C16: select_backend(None) fails with NoHealthyBackends whenever no
\* registered backend is both enabled and healthy, on an empty registry too,
\* under every strategy.
C16_NoHealthyBackendsError ==
    [][(SelectStep /\ last'.backend = "" /\ HealthyNames(backends, up) = {})
        => last'.result = "NoHealthyBackends" /\ last'.name = ""]_vars

\* C16 witness: under least-connections, with one backend enabled but down
\* and another disabled, select_backend(None) failed.
C16_Witness ==
    /\ last.op = "select_backend" /\ last.backend = ""
    /\ last.result = "NoHealthyBackends"
    /\ strategy = "LeastConnections"
    /\ \E a, b \in DOMAIN backends :
        /\ backends[a].enabled /\ a \notin up
        /\ ~backends[b].enabled

\* The last n picks.
LastPicks(n) == SubSeq(picks, Len(picks) - n + 1, Len(picks))

\* Each backend of H occurs exactly c times in the window w.
Balanced(w, H, c) ==
    \A n \in H : Cardinality({i \in 1..Len(w) : w[i] = n}) = c

\* C17 as claimed: under round-robin with k healthy backends and no change
\* to the healthy set, any window of c*k consecutive select_backend(None)
\* calls returns each backend exactly c times.
C17_RoundRobinWindows ==
    LET H == HealthyNames(backends, up)
        k == Cardinality(H)
    IN  k > 0 =>
            \A c \in 1..MaxCounter :
                c * k <= Len(picks) => Balanced(LastPicks(c * k), H, c)

\* C17 as amended: the same for windows during which neither the healthy
\* set nor the registry changes.
C17_RoundRobinWindowsStableRegistry ==
    LET H == HealthyNames(backends, up)
        k == Cardinality(H)
    IN  k > 0 =>
            \A c \in 1..MaxCounter :
                c * k <= Len(picks) - stable_from => Balanced(LastPicks(c * k), H, c)

\* C17 witness: two healthy backends, three picks in a row with no change in
\* between.
C17_Witness ==
    /\ Cardinality(HealthyNames(backends, up)) = 2
    /\ Len(picks) = 3 /\ stable_from = 0
    /\ last.op = "select_backend"

(***************************************************************************)
(* Claims about the router, checked under RouterSpec.                      *)
(***************************************************************************)
\* The step is a route call.
RouteStep == last'.op = "route"

\* The registered backends whose name is a substring of the model string m
\* ("" for no model).
ModelMatches(m) ==
    IF m = "" THEN {} ELSE {n \in DOMAIN backends : IsSubstring(n, m)}

\* C18: a named backend that is registered is returned whatever the model
\* string and default_backend are; otherwise, when a model string is given
\* and the name of a registered backend is a substring of it, such a backend
\* is returned, not default_backend and not the load balancer's choice.
C18_RoutePrecedence ==
    [][RouteStep =>
        /\ last'.backend \in DOMAIN backends
            => last'.result = "Ok" /\ last'.name = last'.backend
        /\ (last'.backend \notin DOMAIN backends /\ ModelMatches(last'.model) # {})
            => /\ last'.result = "Ok"
               /\ last'.name \in ModelMatches(last'.model)
               /\ counter' = counter]_vars

\* C18 witness: with a default backend that is registered and does not
\* match, a route call by model returned the backend matching the model.
C18_Witness ==
    /\ last.op = "route" /\ last.result = "Ok"
    /\ last.backend = "" /\ last.model # ""
    /\ last.name \in ModelMatches(last.model)
    /\ \E d \in router_config.default_backend :
        d \in DOMAIN backends /\ d # last.name /\ d \notin ModelMatches(last.model)

\* C19: with default_backend d registered, a route call that names no
\* backend and gives no model returns d, whether or not fallback is enabled
\* and whatever other backends are registered.
C19_DefaultBackendReturned ==
    [][(RouteStep /\ last'.backend = "" /\ last'.model = "")
        => \A d \in router_config.default_backend \cap DOMAIN backends :
            last'.result = "Ok" /\ last'.name = d /\ counter' = counter]_vars

\* C19 witness: fallback disabled, the default backend is down, another
\* backend is healthy, and the route call returned the default.
C19_Witness ==
    /\ last.op = "route" /\ last.result = "Ok"
    /\ last.backend = "" /\ last.model = ""
    /\ ~router_config.fallback_enabled
    /\ router_config.default_backend = {last.name}
    /\ last.name \notin HealthyNames(backends, up)
    /\ HealthyNames(backends, up) # {}

\* C20: when a route call names no backend, no registered backend matches
\* the model and no default_backend is set: with fallback_enabled and a
\* healthy backend the call returns a healthy backend through the load
\* balancer; without fallback_enabled it fails with NoHealthyBackends, also
\* when healthy backends are registered.
C20_FallbackOnlyWhenEnabled ==
    [][(/\ RouteStep /\ last'.backend = ""
        /\ ModelMatches(last'.model) = {}
        /\ router_config.default_backend = None)
        => IF router_config.fallback_enabled
           THEN HealthyNames(backends, up) # {}
                => last'.result = "Ok" /\ last'.name \in HealthyNames(backends, up)
           ELSE last'.result = "NoHealthyBackends" /\ last'.name = ""]_vars

\* C20 witness: fallback disabled, no default, a healthy backend registered,
\* and a route call with a model that matches nothing failed.
C20_Witness ==
    /\ last.op = "route" /\ last.result = "NoHealthyBackends"
    /\ last.backend = "" /\ last.model = "sdxl"
    /\ ~router_config.fallback_enabled
    /\ router_config.default_backend = None
    /\ HealthyNames(backends, up) # {}

(***************************************************************************)
(* Claims about the health-check manager, checked under ManagerSpec.       *)
(***************************************************************************)
SummaryStep == last.op = "get_health_summary"

\* C21: get_health_summary() returns (total, healthy, unhealthy) where total
\* is the number of backends currently registered (0 for the empty
\* registry), whether or not a probe has run and after any adds and
\* removes, and healthy + unhealthy = total.
C21_SummaryCountsRegistered ==
    SummaryStep =>
        /\ last.summary.total = Cardinality(registered)
        /\ last.summary.healthy + last.summary.unhealthy = last.summary.total
        /\ registered = {} =>
              last.summary = [total |-> 0, healthy |-> 0, unhealthy |-> 0]

\* A summary taken while a removed backend still has a record and a
\* registered one has none yet.
C21_Witness ==
    /\ SummaryStep
    /\ last.summary.total = 1
    /\ \E n \in DOMAIN health_records : n \notin registered
    /\ \E n \in registered : n \notin DOMAIN health_records

\* C22: with two registered backends whose upstreams are all unreachable,
\* after two probe cycles get_health_summary() reports (2, 0, 2).
C22_TwoCyclesAllDown ==
    (/\ SummaryStep
     /\ cycles.done >= 2
     /\ Cardinality(DOMAIN backends) = 2)
        => last.summary = [total |-> 2, healthy |-> 0, unhealthy |-> 2]

C22_Witness ==
    /\ SummaryStep
    /\ cycles.done >= 2
    /\ Cardinality(DOMAIN backends) = 2
    /\ last.summary.unhealthy = 2

(***************************************************************************)
(* Claims about dispatch through the request queue, checked under          *)
(* DispatchSpec.                                                           *)
(***************************************************************************)
\* C23: whatever the interleaving of dispatches that target backend x with
\* remove_backend(x), a dispatch is answered by x's adapter or fails with
\* BackendNotFound / NoHealthyBackends; it is never answered by, nor in
\* flight at, another backend.
C23_DispatchServedByTarget ==
    /\ \A x \in Names :
         (last.op = "submit" /\ last.backend = x) =>
            \/ last.name = x
            \/ last.name = "" /\ last.result \in {"BackendNotFound", "NoHealthyBackends"}
    /\ \A d \in BagToSet(dispatches) : \A x \in d.target : \A a \in d.held : a.name = x

\* A dispatch that targets x is answered by x after x was removed, while
\* another backend is registered, and another dispatch to x has failed.
C23_Witness ==
    \E x \in Names :
        /\ last.op = "submit" /\ last.backend = x /\ last.name = x
        /\ x \notin DOMAIN backends
        /\ DOMAIN backends # {}

(***************************************************************************)
(* Claims about selection after a removal, checked under SelectionSpec.    *)
(***************************************************************************)
\* The names a selection that starts in this state may return from the
\* image registry: through the router by explicit name, by model, by
\* default or by fallback, and through the load balancer under every
\* strategy and counter.
RouteSelectable ==
    {NameOf(r) : r \in UNION {
        Route(backends, order, up, router_config, strategy, counter, bn, model) :
        bn \in BackendNames, model \in ModelHints}} \ {""}

BalancerSelectable ==
    {NameOf(r) : r \in UNION {
        SelectBackend(backends, order, up, strat, cnt, bn) :
        strat \in Strategies, cnt \in 0..MaxCounter, bn \in BackendNames}} \ {""}

\* The names get_backend_for_model may return in this state.
TextSelectable ==
    {(CHOOSE a \in r.val : TRUE).name :
        r \in {x \in UNION {Lookup(m, p) : m \in QueryModels, p \in BackendNames} :
                  x.val # None}}

\* C24: once remove_backend(x) has returned Ok, no selection that starts
\* afterwards returns x, in either registry, until x is added again.
C24_RemovedNeverSelected ==
    /\ RouteSelectable \subseteq registered
    /\ BalancerSelectable \subseteq registered
    /\ TextSelectable \cap removed = {}

\* x, the default backend, has just been removed from the image registry
\* after it was removed from the text registry, and another backend can be
\* selected.
C24_Witness ==
    \E x \in Names :
        /\ last.op = "remove_backend" /\ last.name = x /\ last.result = "Ok"
        /\ x \in removed
        /\ router_config.default_backend = Some(x)
        /\ RouteSelectable # {}

(***************************************************************************)
(* Claims about parse_size, checked under ParseSpec.                       *)
(***************************************************************************)
\* The size string is "<w>x<h>" with w and h strings of digits.
WellFormedSize(s) ==
    \E i \in 1..Len(s) :
        /\ s[i] = "x"
        /\ i > 1 /\ i < Len(s)
        /\ \A j \in 1..Len(s) : j # i => IsDigit(s[j])

\* The dimensions a well-formed size string names.
DimensionsOf(s) ==
    LET i == CHOOSE k \in 1..Len(s) : s[k] = "x" IN
    <<DecimalValue(SubSeq(s, 1, i - 1)), DecimalValue(SubSeq(s, i + 1, Len(s)))>>

\* C25: parse_size returns (w, h) for a size string "<w>x<h>" with numeric
\* w and h, and (1024, 1024) for every other size string, also when only
\* one of the two parts is not a number.
C25_ParseSizeDefaultsTogether ==
    last.op = "parse_size" =>
        IF WellFormedSize(request_size)
        THEN parsed = DimensionsOf(request_size)
        ELSE parsed = <<1024, 1024>>

(***************************************************************************)
(* Claims about the management handlers, checked under ManagementSpec.     *)
(***************************************************************************)
\* C26: every adapter held by the registry has a non-empty list of
\* endpoints, after start-up from a validated configuration and after any
\* add-backend requests.
C26_EndpointsNonEmpty ==
    \A n \in DOMAIN backends : backends[n].endpoints # <<>>

(***************************************************************************)
(* Claims about one text adapter under concurrent calls, checked under     *)
(* ConcurrentSpec.                                                         *)
(***************************************************************************)
\* C27: in every reachable state, under any interleaving of requests in
\* flight and health probes, an endpoint that is not healthy has at least
\* three consecutive failures.
C27_UnhealthyImpliesThreshold ==
    \A i \in 1..Len(endpoints) :
        ~endpoints[i].healthy => endpoints[i].consecutive_failures >= 3

\* An endpoint is unhealthy while a request sent to it and a health_check
\* are both in flight.
C27_Witness ==
    /\ \E i \in 1..Len(endpoints) :
          /\ ~endpoints[i].healthy
          /\ \E c \in BagToSet(calls) : c.url = endpoints[i].url
    /\ probe.pos > 0


(***************************************************************************)
(* Claims about one text adapter that keeps receiving calls, checked       *)
(* under StarvationSpec.                                                   *)
(***************************************************************************)
\* Endpoint i is healthy.
EndpointHealthy(i) == i \in 1..Len(endpoints) /\ endpoints[i].healthy

\* The last step was a request sent to endpoint i.
EndpointSelected(i) ==
    /\ i \in 1..Len(endpoints)
    /\ last.op = "chat_completion"
    /\ last.name = endpoints[i].url

\* C28 as stated: if calls keep arriving, every endpoint that stays healthy
\* from some point on is selected again and again, whatever the health
\* flags of the other endpoints do.
C28_StarvationFree ==
    \A i \in 1..(NumEndpoints + 1) :
        <>[]EndpointHealthy(i) => []<>EndpointSelected(i)

\* C28 amended: if calls keep arriving and from some point on the list of
\* healthy endpoints no longer changes, every endpoint that stays healthy
\* is selected again and again.
C28_StarvationFreeStableHealthySet ==
    \A i \in 1..(NumEndpoints + 1) :
        (<>[][HealthyUrls(endpoints') = HealthyUrls(endpoints)]_vars
            /\ <>[]EndpointHealthy(i))
        => []<>EndpointSelected(i)

\* A request is sent to the second of three endpoints while the first is
\* unhealthy.
C28_Witness ==
    /\ Len(endpoints) >= 2
    /\ EndpointSelected(2)
    /\ ~endpoints[1].healthy
    /\ Len(HealthyUrls(endpoints)) >= 2


(***************************************************************************)
(* Claims about the cursor of one text adapter under concurrent calls,     *)
(* checked under ConcurrentSpec.                                           *)
(***************************************************************************)
\* How many entries of the sequence s equal x.
Occurrences(s, x) == Cardinality({i \in 1..Len(s) : s[i] = x})

\* Every endpoint of the adapter is healthy, and there is at least one.
AllEndpointsHealthy ==
    /\ Len(endpoints) >= 1
    /\ \A i \in 1..Len(endpoints) : endpoints[i].healthy

\* C29: while the k endpoints of an adapter all stay healthy, every window
\* of c*k consecutive selections picks each endpoint exactly c times, and
\* the stored cursor is an index into the list of healthy endpoints.
C29_WindowsPickEachEndpoint ==
    AllEndpointsHealthy =>
        LET k == Len(endpoints) IN
        /\ current_endpoint_index \in 0..(k - 1)
        /\ \A c \in 1..MaxWindow :
              c * k <= Len(selections) =>
                  \A i \in 1..k :
                      Occurrences(LastN(selections, c * k), endpoints[i].url) = c

\* Two endpoints, both healthy since the selections recorded began, and a
\* full window of two selections while requests are in flight.
C29_Witness ==
    /\ AllEndpointsHealthy
    /\ Len(endpoints) = 2
    /\ Len(selections) = 2
    /\ calls # EmptyBag

\* C30: when a call selects an endpoint after another call did, with two
\* or more healthy endpoints and no change of health between the two, it
\* obtains the cursor value that follows the other call's value, a
\* different value, and a different endpoint.
C30_ConcurrentCallsAdjacentCursors ==
    [][(/\ last'.op = "get_next_endpoint"
        /\ selections # <<>>
        /\ Len(HealthyUrls(endpoints)) >= 2)
       => /\ current_endpoint_index' =
                (current_endpoint_index + 1) % Len(HealthyUrls(endpoints))
          /\ current_endpoint_index' # current_endpoint_index
          /\ selections'[Len(selections')] # selections[Len(selections)]
          /\ HealthyUrls(endpoints)[current_endpoint_index + 1]
                = selections[Len(selections)]]_vars

\* Two requests are in flight at two endpoints, selected one after the
\* other with no change of health between them.
C30_Witness ==
    /\ BagCardinality(calls) = 2
    /\ Cardinality(BagToSet(calls)) = 2
    /\ Len(selections) >= 2
    /\ selections[Len(selections)] # selections[Len(selections) - 1]
    /\ last.op = "get_next_endpoint"


(***************************************************************************)
(* Claims about the answers of the upstream of one text adapter, checked   *)
(* under AdapterSpec.                                                      *)
(***************************************************************************)
\* The healthy flag and the counter of endpoint i are left as they are.
HealthKept(i) ==
    /\ endpoints'[i].healthy = endpoints[i].healthy
    /\ endpoints'[i].consecutive_failures = endpoints[i].consecutive_failures

\* C31: an upstream answer with a 4xx status other than 401 never changes
\* the healthy flag or the counter of an endpoint, whether it answers a
\* request or a probe of health_check.
C31_ClientErrorKeepsHealth ==
    [][/\ (last'.op \in {"chat_completion", "text_completion"}
              /\ last'.outcome = "client_error")
          => \A i \in 1..Len(endpoints) : HealthKept(i)
       /\ \A outcomes \in ProbeOutcomes :
             HealthCheck(outcomes) =>
                 \A i \in 1..Len(endpoints) :
                     outcomes[i] = "client_error" => HealthKept(i)]_vars


(***************************************************************************)
(* Claims about the lookup by model after any adds and removes, checked    *)
(* under TextSpec.                                                         *)
(***************************************************************************)
\* Some registered, enabled text backend declares the model.
DeclaredByEnabled(model) ==
    \E n \in DOMAIN text_backends :
        text_backends[n].enabled /\ model \in text_backends[n].models

\* C36: whenever a registered, enabled text backend declares a model, the
\* lookup of the model without a preferred backend returns a backend whose
\* declared models contain it.
C36_LookupReturnsDeclaringBackend ==
    \A model \in Models :
        DeclaredByEnabled(model) =>
            \A r \in Lookup(model, None) :
                /\ r.err = "Ok"
                /\ \A a \in r.val : model \in a.models


(***************************************************************************)
(* Claims about the result of health_check, checked under AdapterSpec.     *)
(***************************************************************************)
\* The step is a health_check that has completed.
HealthCheckStep == last'.op = "health_check"

KnownProtocols == {"http", "grpc", "openai", "anthropic", "tgi"}
KnownBackendTypes == {"text", "image", "multi"}

\* C40: the add-backend handler changes only the image registry: whatever
\* the backend_type and protocol of the request, the text registry and its
\* model-to-backend mapping are left as they are; an accepted request is
\* registered in the image registry under its name, and nothing else in the
\* image registry changes; a request with an unknown protocol is registered
\* as an http backend, and one with an unknown backend_type is handled as an
\* image backend.
C40_HandlerChangesImageRegistryOnly ==
    [][last'.op = "add_backend" =>
          /\ text_backends' = text_backends
          /\ model_to_backend' = model_to_backend
          /\ \A n \in DOMAIN backends : n \in DOMAIN backends' /\ backends'[n] = backends[n]
          /\ DOMAIN backends' \subseteq DOMAIN backends \cup {last'.name}
          /\ last'.result = "Ok" =>
                /\ last'.name \in DOMAIN backends' \ DOMAIN backends
                /\ ToLowercase(last'.protocol) \notin KnownProtocols
                      => backends'[last'.name].protocol = "http"
                /\ ToLowercase(last'.protocol) \in {"http", "openai", "grpc"}
                      => backends'[last'.name].protocol = ToLowercase(last'.protocol)
          /\ ToLowercase(last'.backend_type) \notin KnownBackendTypes
                => ParseBackendType(last'.backend_type) = "image"
         ]_vars

\* A request of backend_type Text with the unknown protocol websocket has
\* been registered in the image registry as an http backend, under a name
\* the text registry holds too, with its models still mapped to it.
C40_Witness ==
    /\ last.op = "add_backend"
    /\ last.result = "Ok"
    /\ last.protocol = "websocket"
    /\ last.backend_type = "Text"
    /\ last.name \in DOMAIN backends
    /\ backends[last.name].protocol = "http"
    /\ last.name \in DOMAIN text_backends
    /\ \A m \in Models : m \in DOMAIN model_to_backend /\ model_to_backend[m] = last.name

(***************************************************************************)
(* Claims about the registry operations in steps, checked under            *)
(* RegistryStepSpec.                                                        *)
(***************************************************************************)
\* C32: no task holds a guard on a registry map and the endpoints lock of
\* an adapter at the same time.
C32_NoRegistryGuardWithEndpointsLock ==
    \A t \in DOMAIN tasks :
        ~(\E g \in tasks[t].locks : g[1] = "backends"
          /\ \E e \in tasks[t].locks : e[1] = "endpoints")

\* C34: of two add_backend calls of the image registry for the same name
\* that run concurrently, at most one returns Ok.
C34_OneImageAddSucceeds ==
    \A t \in DOMAIN tasks : \A u \in DOMAIN tasks :
        (/\ t # u
         /\ tasks[t].op = "image_add" /\ tasks[u].op = "image_add"
         /\ tasks[t].config.name = tasks[u].config.name
         /\ tasks[t].result = "Ok")
        => tasks[u].result # "Ok"

\* C35: in every state, the states between the steps of the running calls
\* included, every entry of the model-to-backend mapping names a backend
\* the text registry holds.
C35_MappingNamesRegisteredBackend ==
    \A model \in DOMAIN model_to_backend :
        model_to_backend[model] \in DOMAIN text_backends

\* C39: no task waits for a health probe while it holds a guard on a
\* registry map.
C39_NoRegistryGuardAcrossProbe ==
    \A t \in DOMAIN tasks :
        tasks[t].pc = "probe" => ~(\E g \in tasks[t].locks : g[1] = "backends")

(***************************************************************************)
(* Claims about the recovery of an endpoint, checked under ConcurrentSpec. *)
(***************************************************************************)
\* An endpoint that was unhealthy is healthy after the step.
RestoredEndpoint(i) == ~endpoints[i].healthy /\ endpoints'[i].healthy

\* C38 as stated: an unhealthy endpoint is never contacted by the request
\* path, so only a step of health_check makes an unhealthy endpoint healthy.
C38_OnlyProbeRestores ==
    [][\A i \in 1..Len(endpoints) : RestoredEndpoint(i) => last'.op = "health_check"]_vars

\* C38, amended: get_next_endpoint never selects an unhealthy endpoint; an
\* unhealthy endpoint becomes healthy only by the probe health_check makes
\* of it or by the answer to a request that was sent to it before it became
\* unhealthy and is still in flight, and it then has counter 0 and is in
\* the list get_next_endpoint selects from; health_check probes the
\* endpoints one after the other whatever their health, and a probe the
\* upstream answers with 2xx or 401 (the history streak records the answer
\* as a success: it is 0 after the step) leaves its endpoint healthy with
\* counter 0 and in that list.
C38_ProbeOrRequestInFlightRestores ==
    [][/\ (last'.op = "get_next_endpoint" /\ last'.result = "Ok") =>
            \E i \in 1..Len(endpoints) :
                /\ endpoints[i].url = selections'[Len(selections')]
                /\ endpoints[i].healthy
       /\ endpoints' # endpoints =>
            \A i \in 1..Len(endpoints) :
                RestoredEndpoint(i) =>
                    /\ endpoints'[i].consecutive_failures = 0
                    /\ \E k \in DOMAIN HealthyUrls(endpoints') :
                            HealthyUrls(endpoints')[k] = endpoints[i].url
                    /\ \/ last'.op = "health_check" /\ probe.pos = i
                       \/ /\ last'.op \in ConcurrentOps
                          /\ \E c \in BagToSet(calls) :
                                /\ c.url = endpoints[i].url
                                /\ calls' = calls (-) SetToBag({c})
       /\ (last'.op = "health_check" /\ probe.pos > 0) =>
            /\ probe'.pos = IF probe.pos = Len(endpoints) THEN 0 ELSE probe.pos + 1
            /\ streak'[probe.pos] = 0 =>
                    /\ endpoints'[probe.pos].healthy
                    /\ endpoints'[probe.pos].consecutive_failures = 0
                    /\ \E k \in DOMAIN HealthyUrls(endpoints') :
                            HealthyUrls(endpoints')[k] = endpoints[probe.pos].url
      ]_vars

\* A probe has just made an unhealthy endpoint healthy, which a request
\* still in flight was sent to before it became unhealthy.
C38_Witness ==
    /\ last.op = "health_check"
    /\ last.result = "restored"
    /\ \E c \in BagToSet(calls) : \E i \in 1..Len(endpoints) :
          /\ endpoints[i].url = c.url
          /\ endpoints[i].healthy
          /\ endpoints[i].consecutive_failures = 0

(***************************************************************************)
(* Claims about the locks of a text adapter, checked under LockSpec.       *)
(***************************************************************************)
\* C33: a task that waits for the upstream to answer its request or probe
\* holds neither the endpoints lock nor the cursor lock; the guards are held
\* only by tasks inside get_next_endpoint or a mark, and the guards held at
\* the same time are compatible: a write guard on the endpoints excludes
\* every other guard on them, and one task holds the cursor.
C33_NoLockAcrossUpstreamCall ==
    /\ \A t \in DOMAIN tasks :
        /\ tasks[t].pc \in {"io", "mark", "done"} => tasks[t].locks = {}
        /\ tasks[t].locks # {} => tasks[t].pc \in {"select", "advance", "marking"}
    /\ \A t \in DOMAIN tasks : \A u \in DOMAIN tasks \ {t} :
        /\ "endpoints_write" \in tasks[t].locks
              => tasks[u].locks \cap {"endpoints_read", "endpoints_write"} = {}
        /\ "cursor" \in tasks[t].locks => "cursor" \notin tasks[u].locks

\* While one task waits for a slow upstream to answer its request, another
\* task holds the write guard on the endpoints and marks one.
C33_Witness ==
    \E t \in DOMAIN tasks : \E u \in DOMAIN tasks :
        /\ tasks[t].pc = "io"
        /\ tasks[t].op = "chat_completion"
        /\ tasks[u].pc = "marking"
        /\ tasks[u].locks = {"endpoints_write"}

====
